---- MODULE Spec2Model ----
(***************************************************************************)
(* Verification model of the certifiable-data pipeline core:               *)
(*   - Feistel / cycle-walking index permutation   (shuffle.c)             *)
(*   - Merkle tree and provenance chain            (merkle.c)              *)
(*   - batch assembly and batch verification       (batch.c)               *)
(*   - DVM saturating primitives and normalisation (primitives.c,          *)
(*     normalize.c)                                                        *)
(* SHA-256 is modelled as an injective constructor of terms: a digest is   *)
(* the tuple of the bytes that were fed to the hash, so two digests are    *)
(* equal exactly when their inputs are equal (collision freedom).          *)
(***************************************************************************)
EXTENDS Integers, Sequences, FiniteSets, TLC

(***************************************************************************)
(* Bounds of the model                                                     *)
(***************************************************************************)
MaxN == 4
\* largest dataset size N explored by the permutation model

MaxLeaves == 4
\* small Merkle trees have 0..MaxLeaves leaves

KeyMax == 1
\* round-function family: additive constants 0..KeyMax per round

MaxEpoch == 1
\* epochs 0..MaxEpoch

ExtraIdx == 1
\* defensive calls use indices N .. N+ExtraIdx

(***************************************************************************)
(* Machine integers                                                        *)
(***************************************************************************)
Pow2(n) == 2 ^ n

RECURSIVE BitXor(_, _)
BitXor(a, b) ==
    IF a = 0 THEN b
    ELSE IF b = 0 THEN a
    ELSE (((a % 2) + (b % 2)) % 2) + 2 * BitXor(a \div 2, b \div 2)

RECURSIVE BitOr(_, _)
BitOr(a, b) ==
    IF a = 0 THEN b
    ELSE IF b = 0 THEN a
    ELSE (IF a % 2 = 1 \/ b % 2 = 1 THEN 1 ELSE 0) + 2 * BitOr(a \div 2, b \div 2)

RECURSIVE BitAnd(_, _)
BitAnd(a, b) ==
    IF a = 0 \/ b = 0 THEN 0
    ELSE (IF a % 2 = 1 /\ b % 2 = 1 THEN 1 ELSE 0) + 2 * BitAnd(a \div 2, b \div 2)

(***************************************************************************)
(* shuffle.c : ceil_log2, feistel_round, ct_permute_index                  *)
(***************************************************************************)
RECURSIVE ceil_log2_loop(_, _)
ceil_log2_loop(m, result) ==
    IF m > 0 THEN ceil_log2_loop(m \div 2, result + 1) ELSE result

ceil_log2(n) == IF n <= 1 THEN 0 ELSE ceil_log2_loop(n - 1, 0)

\* The SHA-256 based round function is an arbitrary function of
\* (R, seed, epoch, round).  A seed names a table of four round keys; the key
\* of a round is a digit d of the seed, and the round value is
\* (d % 2) * R + d \div 2.  After the caller's "& half_mask" with half_bits = 1
\* the four digits 0..3 give all four functions of one bit, so the seeds
\* 0..NumSeeds-1 enumerate every round-function table for N <= 4.
FuncsPerRound == 2 * (KeyMax + 1)

NumSeeds == FuncsPerRound ^ 4

Seeds == 0 .. (NumSeeds - 1)

Epochs == 0 .. MaxEpoch

\* the oracle's table for (seed, epoch) is the one numbered seed + 101 * epoch
RoundKey(seed, epoch, round) ==
    (((seed + (100 + 1) * epoch) % NumSeeds) \div (FuncsPerRound ^ round)) % FuncsPerRound

feistel_round(R, seed, epoch, round) ==
    LET d == RoundKey(seed, epoch, round)
    IN  (d % 2) * R + (d \div 2)

RECURSIVE FeistelRounds(_, _, _, _, _, _)
FeistelRounds(L, R, seed, epoch, half_mask, round) ==
    IF round < 4
    THEN LET F == BitAnd(feistel_round(R, seed, epoch, round), half_mask)
             new_L == R
             new_R == BitXor(L, F)
         IN  FeistelRounds(new_L, new_R, seed, epoch, half_mask, round + 1)
    ELSE <<L, R>>

FeistelNetwork(i, seed, epoch, half_bits, half_mask) ==
    LET L  == BitAnd(i, half_mask)
        R  == BitAnd(i \div Pow2(half_bits), half_mask)
        LR == FeistelRounds(L, R, seed, epoch, half_mask, 0)
    IN  BitOr(LR[2] * Pow2(half_bits), LR[1])

\* a defensive exit that hands the index back unreduced
DefensiveReturn_Unreduced(index, N) == index

DefensiveReturn(index, N) == index % N

FallbackReturn(index, N) == index % N

MaxIterations(range) == range

RECURSIVE CycleWalk(_, _, _, _, _, _, _, _)
CycleWalk(i, iterations, index, N, seed, epoch, half_bits, max_iterations) ==
    IF iterations >= max_iterations
    THEN [ret |-> FallbackReturn(index, N), path |-> "fallback",
          iterations |-> iterations]
    ELSE LET j == FeistelNetwork(i, seed, epoch, half_bits, Pow2(half_bits) - 1)
         IN  IF j < N
             THEN [ret |-> j, path |-> "walk", iterations |-> iterations + 1]
             ELSE CycleWalk(j, iterations + 1, index, N, seed, epoch,
                            half_bits, max_iterations)

ct_permute_index(index, N, seed, epoch) ==
    IF N <= 1 THEN [ret |-> 0, path |-> "trivial", iterations |-> 0]
    ELSE IF index >= N
    THEN [ret |-> DefensiveReturn(index, N), path |-> "defensive", iterations |-> 0]
    ELSE LET k         == ceil_log2(N)
             range     == Pow2(k)
             half_bits == (k + 1) \div 2
         IN  CycleWalk(index, 0, index, N, seed, epoch, half_bits,
                       MaxIterations(range))

(***************************************************************************)
(* Digests.  Sha(input) is the SHA-256 digest of the byte string input     *)
(* (sha256 init / update... / final over the concatenated updates); a      *)
(* 32-byte digest that is part of an input is one element of the string.   *)
(* Raw(b) is the 32-byte string whose bytes all equal b (memset(h, b, 32)).*)
(***************************************************************************)
Sha(input) == <<"sha", input>>

Raw(b) == <<"raw", b>>

ZeroHash == Raw(0)

\* h with byte i toggled (h[i] ^= 0xFF); toggling the same byte twice
\* restores h, and the order of toggles does not matter.
XorByte(h, i) ==
    LET base == IF h[1] = "xor" THEN h[3] ELSE h
        old  == IF h[1] = "xor" THEN h[2] ELSE {}
        new  == (old \ {i}) \cup ({i} \ old)
    IN  IF new = {} THEN base ELSE <<"xor", new, base>>

\* little-endian bytes of a 32-bit value: (v >> 8k) & 0xFF, for unsigned
\* values and for the two's complement of negative int32_t values alike
LE4(v) == <<v % 256, (v \div 256) % 256, (v \div 65536) % 256, (v \div 16777216) % 256>>

CT_MAX_DIMS == 4

CT_DOMAIN_LEAF == 0

CT_DOMAIN_INTERNAL == 1

CT_DOMAIN_PROVENANCE == 3

CT_DOMAIN_EPOCH_CHAIN == 4

(***************************************************************************)
(* merkle.c : ct_hash_internal, ct_merkle_root                             *)
(***************************************************************************)
ct_hash_internal(left, right) == Sha(<<CT_DOMAIN_INTERNAL, left, right>>)

MerkleCopyLimit == 1024
\* leaves copied into the scratch array: "i < count && i < 1024"

MerkleTreeSlots == 2048
\* ct_hash_t tree[2048]

\* the scratch array after "Copy leaves to tree": slot i holds leaves[i] for
\* i < count and i < 1024; every other slot keeps the bytes the stack held,
\* an indeterminate value (stack)
TreeCopyLeaves(leaves, count, stack) ==
    [i \in 0 .. (count - 1) |->
        IF i < count /\ i < MerkleCopyLimit THEN leaves[i] ELSE stack]

\* the slots the copy loop wrote
TreeCopied(count) == {i \in 0 .. (count - 1) : i < MerkleCopyLimit}

\* a node that pairs an odd last node with itself instead of promoting it
MerkleNode_Duplicated(tree, i, current_level) ==
    LET left_idx  == i * 2
        right_idx == left_idx + 1
    IN  IF right_idx < current_level
        THEN ct_hash_internal(tree[left_idx], tree[right_idx])
        ELSE ct_hash_internal(tree[left_idx], tree[left_idx])

\* the node the inner loop stores in tree[i]
MerkleNode(tree, i, current_level) ==
    LET left_idx  == i * 2
        right_idx == left_idx + 1
    IN  IF right_idx < current_level
        THEN ct_hash_internal(tree[left_idx], tree[right_idx])
        ELSE tree[left_idx]

\* one pass of the inner loop "for (i = 0; i < next_level; i++)": slot i is
\* written from slots 2i and 2i+1, which no earlier iteration of the pass
\* has overwritten (they lie at or above i)
MerkleLevel(tree, current_level) ==
    LET next_level == (current_level + 1) \div 2
    IN  [i \in DOMAIN tree |->
            IF i < next_level THEN MerkleNode(tree, i, current_level) ELSE tree[i]]

RECURSIVE MerkleBuild(_, _)
MerkleBuild(tree, current_level) ==
    IF current_level > 1
    THEN MerkleBuild(MerkleLevel(tree, current_level), (current_level + 1) \div 2)
    ELSE tree[0]

\* ct_merkle_root: the root stored in out_root, the scratch slots that were
\* read without having been written, and whether a slot outside tree[] was
\* touched
ct_merkle_root(leaves, count, stack) ==
    IF count = 0 THEN [root |-> ZeroHash, uninit |-> {}, outside |-> FALSE]
    ELSE IF count = 1 THEN [root |-> leaves[0], uninit |-> {}, outside |-> FALSE]
    ELSE [root    |-> MerkleBuild(TreeCopyLeaves(leaves, count, stack), count),
          uninit  |-> (0 .. (count - 1)) \ TreeCopied(count),
          outside |-> count > MerkleTreeSlots]

ct_hash_epoch(batch_hashes, num_batches, stack) ==
    ct_merkle_root(batch_hashes, num_batches, stack)

(***************************************************************************)
(* int64_t values.  TLC's integers are 32 bits wide, so a 64-bit value is  *)
(* kept as its eight two's-complement bytes, least significant first, and  *)
(* the arithmetic of the C operators is done on the bytes modulo 2^64.     *)
(* int32_t values are ordinary integers in INT32_MIN..INT32_MAX.           *)
(***************************************************************************)
INT32_MAX == 2147483647

INT32_MIN == (0 - 2147483647) - 1

FIXED_ONE == 65536

FIXED_HALF == 32768

\* (int64_t)a for an int32_t a: sign extension
I64(a) ==
    LET ext == IF a < 0 THEN 255 ELSE 0
    IN  LE4(a) \o <<ext, ext, ext, ext>>

I64IsNeg(x) == x[8] >= 128

\* the int32_t with the low four bytes of x (the cast (int32_t)x)
I64ToI32(x) ==
    (IF x[4] >= 128 THEN x[4] - 256 ELSE x[4]) * 16777216
        + x[3] * 65536 + x[2] * 256 + x[1]

RECURSIVE I64Carry(_, _, _, _)
\* the carry into byte k of x + y + c
I64Carry(x, y, c, k) ==
    IF k = 1 THEN c
    ELSE (x[k - 1] + y[k - 1] + I64Carry(x, y, c, k - 1)) \div 256

\* the eight bytes f[1..8] as a sequence value
Bytes8(f) == SubSeq(f, 1, 8)

I64AddC(x, y, c) ==
    Bytes8([k \in 1 .. 8 |-> (x[k] + y[k] + I64Carry(x, y, c, k)) % 256])

I64Add(x, y) == I64AddC(x, y, 0)

I64Not(x) == Bytes8([k \in 1 .. 8 |-> 255 - x[k]])

I64Sub(x, y) == I64AddC(x, I64Not(y), 1)

RECURSIVE I64ColSum(_, _, _, _)
\* sum of x[i] * y[k + 1 - i] for i in 1..n
I64ColSum(x, y, k, n) ==
    IF n = 0 THEN 0 ELSE x[n] * y[k + 1 - n] + I64ColSum(x, y, k, n - 1)

RECURSIVE I64MulCol(_, _, _)
\* column k of the schoolbook product, with the carries of the lower columns
I64MulCol(x, y, k) ==
    I64ColSum(x, y, k, k) + (IF k = 1 THEN 0 ELSE I64MulCol(x, y, k - 1) \div 256)

I64Mul(x, y) == Bytes8([k \in 1 .. 8 |-> I64MulCol(x, y, k) % 256])

\* bit i (0 = least significant) of x
I64Bit(x, i) == (x[(i \div 8) + 1] \div Pow2(i % 8)) % 2

I64FromBits(b) ==
    Bytes8([k \in 1 .. 8 |->
        b[8 * k - 8] + 2 * b[8 * k - 7] + 4 * b[8 * k - 6] + 8 * b[8 * k - 5]
        + 16 * b[8 * k - 4] + 32 * b[8 * k - 3] + 64 * b[8 * k - 2] + 128 * b[8 * k - 1]])

\* x >> shift on a signed value: arithmetic shift, the sign bit is replicated
I64Shr(x, shift) ==
    I64FromBits([i \in 0 .. 63 |->
        IF i + shift <= 63 THEN I64Bit(x, i + shift) ELSE I64Bit(x, 63)])

\* 1LL << shift, for shift in 0..62
I64OneShl(shift) == I64FromBits([i \in 0 .. 63 |-> IF i = shift THEN 1 ELSE 0])

I64And(x, y) == I64FromBits([i \in 0 .. 63 |-> I64Bit(x, i) * I64Bit(y, i)])

RECURSIVE I64LtU(_, _, _)
\* unsigned comparison of the bytes k..1
I64LtU(x, y, k) ==
    IF k = 0 THEN FALSE
    ELSE IF x[k] # y[k] THEN x[k] < y[k]
    ELSE I64LtU(x, y, k - 1)

\* x < y as signed 64-bit values
I64Lt(x, y) ==
    IF I64IsNeg(x) # I64IsNeg(y) THEN I64IsNeg(x) ELSE I64LtU(x, y, 8)

(***************************************************************************)
(* primitives.c : dvm_clamp32, dvm_add32, dvm_sub32, dvm_mul64,            *)
(* dvm_round_shift_rne, dvm_mul_q16.  Each returns the value and the fault *)
(* flags after the call.                                                   *)
(***************************************************************************)
\* The element of a singleton set.  Only({e(v) : v \in {d}}) is e(d) with d
\* computed once, however often e uses it.
Only(S) == CHOOSE v \in S : TRUE

\* a clamp that reports every saturation as an overflow
dvm_clamp32_OneFlag(x, f) ==
    Only({ IF I64Lt(I64(INT32_MAX), v)
           THEN [val |-> INT32_MAX, faults |-> [f EXCEPT !.overflow = 1]]
           ELSE IF I64Lt(v, I64(INT32_MIN))
           THEN [val |-> INT32_MIN, faults |-> [f EXCEPT !.overflow = 1]]
           ELSE [val |-> I64ToI32(v), faults |-> f] : v \in {x} })

dvm_clamp32(x, f) ==
    Only({ IF I64Lt(I64(INT32_MAX), v)
           THEN [val |-> INT32_MAX, faults |-> [f EXCEPT !.overflow = 1]]
           ELSE IF I64Lt(v, I64(INT32_MIN))
           THEN [val |-> INT32_MIN, faults |-> [f EXCEPT !.underflow = 1]]
           ELSE [val |-> I64ToI32(v), faults |-> f] : v \in {x} })

dvm_add32(a, b, f) == dvm_clamp32(I64Add(I64(a), I64(b)), f)

dvm_sub32(a, b, f) == dvm_clamp32(I64Sub(I64(a), I64(b)), f)

dvm_mul64(a, b) == I64Mul(I64(a), I64(b))

\* rounding that sends every tie upwards
RoundRNE_HalfUp(frac, halfway, quot) ==
    IF I64Lt(frac, halfway) THEN quot ELSE I64Add(quot, I64(1))

\* the rounded quotient, from fractional = x & mask and quotient = x >> shift
RoundRNE(frac, halfway, quot) ==
    IF I64Lt(frac, halfway) THEN quot
    ELSE IF I64Lt(halfway, frac) THEN I64Add(quot, I64(1))
    ELSE I64Add(quot, I64And(quot, I64(1)))

dvm_round_shift_rne(x, shift, f) ==
    IF shift > 62 THEN [val |-> 0, faults |-> [f EXCEPT !.domain = 1]]
    ELSE IF shift = 0 THEN dvm_clamp32(x, f)
    ELSE Only({ Only({ dvm_clamp32(RoundRNE(frac, halfway, quot), f) :
                         frac \in {I64And(v, mask)}, quot \in {I64Shr(v, shift)} }) :
                  v \in {x},
                  mask \in {I64Sub(I64OneShl(shift), I64(1))},
                  halfway \in {I64OneShl(shift - 1)} })

dvm_mul_q16(a, b, f) == dvm_round_shift_rne(dvm_mul64(a, b), 16, f)

\* -x
I64Neg(x) == I64Sub(I64(0), x)

\* one step of the long division of a by b: from s = <<remainder, quotient>>
\* to the pair after bit i of a has been brought down
I64DivStep(a, b, i, s) ==
    Only({ IF I64LtU(r2, b, 8) THEN <<r2, s[2]>>
           ELSE <<I64Sub(r2, b), I64Add(s[2], I64OneShl(i))>> :
             r2 \in {I64AddC(s[1], s[1], I64Bit(a, i))} })

RECURSIVE I64DivBits(_, _, _, _, _)
\* n steps of the long division, from bit i of a downwards
I64DivBits(a, b, i, n, s) ==
    IF n = 0 THEN s
    ELSE Only({ I64DivBits(a, b, i - 1, n - 1, t) : t \in {I64DivStep(a, b, i, s)} })

RECURSIVE I64DivMod(_, _, _, _)
\* <<a % b, a / b>> for 0 <= a < 2^(i+1) and 0 < b < 2^62, i + 1 a multiple
\* of 8: the long division byte by byte, from s = <<0, 0>>
I64DivMod(a, b, i, s) ==
    IF i < 0 THEN s
    ELSE Only({ I64DivMod(a, b, i - 8, t) : t \in {I64DivBits(a, b, i, 8, s)} })

\* a / b on int64_t for |a| <= 2^47, as in dvm_div_q16: the quotient truncated
\* toward zero, b # 0
I64Div(a, b) ==
    Only({ Only({ IF I64IsNeg(x) # I64IsNeg(y) THEN I64Neg(m[2]) ELSE m[2] :
                    m \in {I64DivMod(IF I64IsNeg(x) THEN I64Neg(x) ELSE x,
                                     IF I64IsNeg(y) THEN I64Neg(y) ELSE y,
                                     47, <<I64(0), I64(0)>>)} }) :
             x \in {a}, y \in {b} })

\* a division that starts from cleared flags
dvm_div_q16_FreshFlags(num, denom, f) ==
    IF denom = 0 THEN [val |-> 0, faults |-> [[n \in DOMAIN f |-> 0] EXCEPT !.div_zero = 1]]
    ELSE dvm_clamp32(I64Div(I64Mul(I64(num), I64(FIXED_ONE)), I64(denom)), f)

dvm_div_q16(num, denom, f) ==
    IF denom = 0 THEN [val |-> 0, faults |-> [f EXCEPT !.div_zero = 1]]
    ELSE dvm_clamp32(I64Div(I64Mul(I64(num), I64(FIXED_ONE)), I64(denom)), f)

(***************************************************************************)
(* uint32_t values that may exceed TLC's integers: the pair <<hi, lo>> of  *)
(* the two 16-bit halves.  All operations are modulo 2^32, as in C.        *)
(***************************************************************************)
U32(n) == <<(n \div 65536) % 65536, n % 65536>>

\* the value of a, for a below 2^31
U32Val(a) == a[1] * 65536 + a[2]

U32IsSmall(a) == a[1] < 32768

U32Add(a, b) ==
    LET lo == a[2] + b[2]
    IN  <<(a[1] + b[1] + (lo \div 65536)) % 65536, lo % 65536>>

U32Sub(a, b) ==
    LET lo == a[2] - b[2]
    IN  <<((a[1] - b[1]) + (lo \div 65536)) % 65536, lo % 65536>>

U32Lt(a, b) == a[1] < b[1] \/ (a[1] = b[1] /\ a[2] < b[2])

\* x * y for 16-bit x and y, as <<high 16 bits, low 16 bits>>; the partial
\* products with the two bytes of y stay below 2^24
Mul16(x, y) ==
    LET p0 == x * (y % 256)
        p1 == x * (y \div 256)
        lo == (p0 % 65536) + (p1 % 256) * 256
    IN  <<((p0 \div 65536) + (p1 \div 256) + (lo \div 65536)) % 65536, lo % 65536>>

U32Mul(a, b) ==
    LET ll == Mul16(a[2], b[2])
        hl == Mul16(a[1], b[2])
        lh == Mul16(a[2], b[1])
    IN  <<(ll[1] + hl[2] + lh[2]) % 65536, ll[2]>>

\* a % n for 0 < n < 2^15
U32Mod(a, n) == ((((a[1] % n) * (65536 % n)) % n) + (a[2] % n)) % n

(***************************************************************************)
(* prng.c.  uint64_t values are eight bytes, least significant first, as   *)
(* the int64_t values above; an op_id is a uint32_t pair.                  *)
(***************************************************************************)
I64Xor(x, y) == Bytes8([k \in 1 .. 8 |-> BitXor(x[k], y[k])])

\* x >> shift on an unsigned value: zeros are shifted in
I64ShrU(x, shift) ==
    I64FromBits([i \in 0 .. 63 |-> IF i + shift <= 63 THEN I64Bit(x, i + shift) ELSE 0])

\* 0x9E3779B97F4A7C15, 0xBF58476D1CE4E5B9, 0x94D049BB133111EB
SplitMixGamma == <<21, 124, 74, 127, 185, 121, 55, 158>>

SplitMixMul1 == <<185, 229, 228, 28, 109, 71, 88, 191>>

SplitMixMul2 == <<235, 17, 49, 19, 187, 73, 208, 148>>

splitmix64(x) ==
    Only({ Only({ Only({ I64Xor(x3, I64ShrU(x3, 31)) :
                           x3 \in {I64Mul(I64Xor(x2, I64ShrU(x2, 27)), SplitMixMul2)} }) :
                    x2 \in {I64Mul(I64Xor(x1, I64ShrU(x1, 30)), SplitMixMul1)} }) :
             x1 \in {I64Add(x, SplitMixGamma)} })

\* a word in which the epoch is not shifted
PrngWord_EpochLow(seed, epoch, op_id) ==
    I64Xor(I64Xor(seed, LE4(epoch) \o <<0, 0, 0, 0>>),
           <<op_id[2] % 256, op_id[2] \div 256, op_id[1] % 256, op_id[1] \div 256,
             0, 0, 0, 0>>)

\* the word seed ^ ((uint64_t)epoch << 32) ^ (uint64_t)op_id
PrngWord(seed, epoch, op_id) ==
    I64Xor(I64Xor(seed, <<0, 0, 0, 0>> \o LE4(epoch)),
           <<op_id[2] % 256, op_id[2] \div 256, op_id[1] % 256, op_id[1] \div 256,
             0, 0, 0, 0>>)

ct_prng(seed, epoch, op_id) == splitmix64(splitmix64(PrngWord(seed, epoch, op_id)))

\* (uint32_t)(rand & 0xFFFFFFFF), as a 64-bit value
Low32(rand) == SubSeq(rand, 1, 4) \o <<0, 0, 0, 0>>

RECURSIVE UniformRedraw(_, _, _)
\* the loop "for (i = 0; i < 4 && val >= threshold; i++)" from iteration i on
UniformRedraw(rand, threshold, i) ==
    IF ~(i < 4 /\ ~I64LtU(Low32(rand), threshold, 8)) THEN rand
    ELSE Only({ UniformRedraw(r, threshold, i + 1) : r \in {splitmix64(rand)} })

\* ct_prng_uniform for n below 2^31; the result is below 2^31
ct_prng_uniform(seed, epoch, op_id, n) ==
    IF n = 0 \/ n = 1 THEN 0
    ELSE Only({
        IF n <= 65536
        THEN Only({ I64ToI32(I64DivMod(Low32(r), I64(n), 31, <<I64(0), I64(0)>>)[1]) :
                      r \in {UniformRedraw(rand,
                                  I64Mul(I64DivMod(<<255, 255, 255, 255, 0, 0, 0, 0>>, I64(n),
                                                   31, <<I64(0), I64(0)>>)[2], I64(n)),
                                  0)} })
        ELSE I64ToI32(I64DivMod(rand, I64(n), 63, <<I64(0), I64(0)>>)[1]) :
          rand \in {ct_prng(seed, epoch, op_id)} })

(***************************************************************************)
(* ct_types.h : ct_sample_t.  dims is indexed 0..CT_MAX_DIMS-1; data is    *)
(* the id of the int32_t buffer the sample points to (0 for NULL), and      *)
(* heap[id] is that buffer, indexed from 0.                                 *)
(***************************************************************************)
ZeroSample ==
    [version |-> 0, dtype |-> 0, ndims |-> 0,
     dims |-> [i \in 0 .. (CT_MAX_DIMS - 1) |-> 0],
     total_elements |-> 0, data |-> 0]

RECURSIVE ConcatLE4(_, _, _)
\* LE4(f[i]) \o ... \o LE4(f[n - 1])
ConcatLE4(f, i, n) == IF i >= n THEN <<>> ELSE LE4(f[i]) \o ConcatLE4(f, i + 1, n)

\* merkle.c : the 28 header bytes ct_hash_sample serialises
SampleHeader(sample) ==
    LE4(sample.version) \o LE4(sample.dtype) \o LE4(sample.ndims)
        \o ConcatLE4([i \in 0 .. (CT_MAX_DIMS - 1) |->
                        IF i < sample.ndims THEN sample.dims[i] ELSE 0],
                     0, CT_MAX_DIMS)

ct_hash_sample(sample, heap) ==
    Sha(<<CT_DOMAIN_LEAF>> \o SampleHeader(sample)
            \o (IF sample.total_elements = 0 THEN <<>>
                ELSE ConcatLE4(heap[sample.data], 0, sample.total_elements)))

(***************************************************************************)
(* batch.c.  A ct_batch_t is [samples, sample_hashes, batch_size,           *)
(* batch_index, batch_hash]; samples and sample_hashes are the caller's     *)
(* arrays, indexed 0..batch_size-1; batch_index is a uint32_t pair.         *)
(***************************************************************************)
ct_batch_init(samples, sample_hashes, batch_size) ==
    [samples |-> samples, sample_hashes |-> sample_hashes,
     batch_size |-> batch_size, batch_index |-> U32(0), batch_hash |-> ZeroHash]

\* a batch hash that hashes the headers of the samples again instead of
\* using sample_hashes
ct_hash_batch_Rehash(batch, stack) ==
    ct_merkle_root([i \in 0 .. (batch.batch_size - 1) |->
                       Sha(<<CT_DOMAIN_LEAF>> \o SampleHeader(batch.samples[i]))],
                   batch.batch_size, stack)

ct_hash_batch(batch, stack) ==
    ct_merkle_root(batch.sample_hashes, batch.batch_size, stack)

\* ct_permute_index for a uint32_t index; N is below 2^15 here, so an index
\* of 2^31 or more takes the "index >= N" exit
ct_permute_index_u32(index, N, seed, epoch) ==
    IF U32IsSmall(index) THEN ct_permute_index(U32Val(index), N, seed, epoch).ret
    ELSE IF N <= 1 THEN 0
    ELSE U32Mod(index, N)

\* iterations of the copy loop that are followed once it has left the arrays
FillOverrun == 1

\* start_idx and samples_in_batch as ct_batch_fill computes them
FillStartIdx(batch_size, batch_index) == U32Mul(batch_index, U32(batch_size))

FillSamplesInBatch(batch_size, num_samples, start_idx) ==
    IF U32Lt(U32(num_samples), U32Add(start_idx, U32(batch_size)))
    THEN U32Sub(U32(num_samples), start_idx)
    ELSE U32(batch_size)

\* the result of ct_batch_fill: the batch, the indices of dataset.samples it
\* read and the indices of batch.samples / batch.sample_hashes it wrote.
\* stray is what a read outside dataset.samples returns.
ct_batch_fill(batch, dataset, batch_index, epoch, seed, heap, stack, stray) ==
    LET bs        == batch.batch_size
        N         == dataset.num_samples
        start_idx == FillStartIdx(bs, batch_index)
        sib       == FillSamplesInBatch(bs, N, start_idx)
        copied    == IF U32Lt(sib, U32(bs + FillOverrun)) THEN U32Val(sib)
                     ELSE bs + FillOverrun
        shuffled(i) == ct_permute_index_u32(U32Add(start_idx, U32(i)), N, seed, epoch)
        src(i)    == IF shuffled(i) < N THEN dataset.samples[shuffled(i)] ELSE stray
        samples   == [i \in 0 .. (bs - 1) |-> IF i < copied THEN src(i) ELSE ZeroSample]
        hashes    == [i \in 0 .. (bs - 1) |->
                        IF i < copied THEN ct_hash_sample(src(i), heap) ELSE ZeroHash]
        filled    == [samples |-> samples, sample_hashes |-> hashes,
                      batch_size |-> bs, batch_index |-> batch_index,
                      batch_hash |-> batch.batch_hash]
    IN  [batch  |-> [filled EXCEPT !.batch_hash = ct_hash_batch(filled, stack).root],
         reads  |-> {shuffled(i) : i \in 0 .. (copied - 1)},
         writes |-> 0 .. ((IF copied > bs THEN copied ELSE bs) - 1)]

\* a comparison that takes memcmp's result for the answer
VerifyCompare_Inverted(computed_hash, batch_hash) ==
    IF computed_hash = batch_hash THEN 0 ELSE 1

\* memcmp(computed_hash, batch->batch_hash, 32) == 0 ? 1 : 0
VerifyCompare(computed_hash, batch_hash) == IF computed_hash = batch_hash THEN 1 ELSE 0

ct_batch_verify(batch, stack) ==
    VerifyCompare(ct_hash_batch(batch, stack).root, batch.batch_hash)

(***************************************************************************)
(* normalize.c.  A ct_normalize_ctx_t is [means, inv_stds, num_features],   *)
(* the two arrays indexed 0..num_features-1.  The functions return the      *)
(* output object, the heap after the writes through output->data, and the   *)
(* fault flags.                                                             *)
(***************************************************************************)
ct_normalize_init(means, inv_stds, num_features) ==
    [means |-> means, inv_stds |-> inv_stds, num_features |-> num_features]

RECURSIVE NormalizeElements(_, _, _, _, _, _)
\* the loop "for (i = 0; i < total_elements && i < num_features; i++)" from
\* iteration i on: input->data[i] is read from, and output->data[i] written
\* to, the heap as the earlier iterations left it
NormalizeElements(ctx, input, output, i, heap, f) ==
    IF ~(i < input.total_elements /\ i < ctx.num_features)
    THEN [heap |-> heap, faults |-> f]
    ELSE Only({ Only({ NormalizeElements(ctx, input, output, i + 1,
                                         [heap EXCEPT ![output.data][i] = normalized.val],
                                         normalized.faults) :
                         normalized \in {dvm_mul_q16(centered.val, ctx.inv_stds[i],
                                                     centered.faults)} }) :
                  centered \in {dvm_sub32(heap[input.data][i], ctx.means[i], f)} })

\* a second loop that copies nothing
CopyRemaining_Skipped(ctx, input, output, heap) == heap

\* the loop "for (i = num_features; i < total_elements; i++)"
CopyRemaining(ctx, input, output, heap) ==
    [heap EXCEPT ![output.data] =
        [i \in DOMAIN heap[output.data] |->
            IF ctx.num_features <= i /\ i < input.total_elements
            THEN heap[input.data][i] ELSE heap[output.data][i]]]

ct_normalize_sample(ctx, input, output, heap, f) ==
    LET meta == [output EXCEPT !.version = input.version, !.dtype = input.dtype,
                               !.ndims = input.ndims, !.dims = input.dims,
                               !.total_elements = input.total_elements]
    IN  IF input.total_elements = 0
        THEN [sample |-> meta, heap |-> heap, faults |-> f]
        ELSE Only({ [sample |-> meta,
                     heap   |-> CopyRemaining(ctx, input, output, r.heap),
                     faults |-> r.faults] :
                    r \in {NormalizeElements(ctx, input, output, 0, heap, f)} })

RECURSIVE NormalizeSamples(_, _, _, _, _, _)
\* the loop over the samples of ct_normalize_batch from iteration i on
NormalizeSamples(ctx, input, i, out_samples, heap, f) ==
    IF ~(i < input.batch_size)
    THEN [samples |-> out_samples, heap |-> heap, faults |-> f]
    ELSE Only({ NormalizeSamples(ctx, input, i + 1,
                                 [out_samples EXCEPT ![i] = r.sample], r.heap, r.faults) :
                  r \in {ct_normalize_sample(ctx, input.samples[i], out_samples[i],
                                             heap, f)} })

ct_normalize_batch(ctx, input, output, heap, f) ==
    Only({ [batch  |-> [output EXCEPT !.samples = r.samples,
                                      !.batch_size = input.batch_size,
                                      !.batch_index = input.batch_index,
                                      !.batch_hash = input.batch_hash],
            heap   |-> r.heap,
            faults |-> r.faults] :
             r \in {NormalizeSamples(ctx, input, 0, output.samples, heap, f)} })

(***************************************************************************)
(* merkle.c : the provenance chain.  A ct_provenance_t is [current_hash,    *)
(* prev_hash, current_epoch, total_epochs].                                 *)
(***************************************************************************)
\* the eight little-endian bytes of a seed below 2^31
LE8(v) == LE4(v) \o <<0, 0, 0, 0>>

\* an input of h_0 that leaves the seed out
InitHashInput_NoSeed(dataset_hash, config_hash, seed) ==
    <<CT_DOMAIN_PROVENANCE, dataset_hash, config_hash>>

\* the bytes hashed into h_0: prefix, H_dataset, H_config, seed
InitHashInput(dataset_hash, config_hash, seed) ==
    <<CT_DOMAIN_PROVENANCE, dataset_hash, config_hash>> \o LE8(seed)

ct_provenance_init(dataset_hash, config_hash, seed) ==
    LET h0 == Sha(InitHashInput(dataset_hash, config_hash, seed))
    IN  [current_epoch |-> 0, total_epochs |-> 0,
         current_hash |-> h0, prev_hash |-> h0]

\* an input of h_e that binds the epoch number after the increment
ChainHashInput_PostIncrement(prev_hash, epoch_hash, epoch) ==
    <<CT_DOMAIN_EPOCH_CHAIN, prev_hash, epoch_hash>> \o LE4(epoch + 1)

\* the bytes hashed into h_e: prefix, h_{e-1}, H_epoch, e
ChainHashInput(prev_hash, epoch_hash, epoch) ==
    <<CT_DOMAIN_EPOCH_CHAIN, prev_hash, epoch_hash>> \o LE4(epoch)

\* a counter that is left as it is
EpochIncrement_Stuck(e) == e

\* prov->current_epoch++, prov->total_epochs++ (below 2^32 - 1)
EpochIncrement(e) == e + 1

ct_provenance_advance(prov, epoch_hash) ==
    [prev_hash     |-> prov.current_hash,
     current_hash  |-> Sha(ChainHashInput(prov.current_hash, epoch_hash,
                                          prov.current_epoch)),
     current_epoch |-> EpochIncrement(prov.current_epoch),
     total_epochs  |-> EpochIncrement(prov.total_epochs)]

(***************************************************************************)
(* augment.c.  A ct_augment_ctx_t is [seed, epoch, flags, crop_width,      *)
(* crop_height, noise_std] with seed a uint64_t and flags [h_flip, v_flip, *)
(* random_crop, gaussian_noise].  ct_augment_sample is followed through a  *)
(* record st = [sample, heap, faults, trace]: the output object, the heap, *)
(* the fault flags, and the stages entered and PRF calls made so far, as   *)
(* <<"step", name>> and <<"prf", op_id>>, and for a crop its offsets        *)
(* <<"crop", crop_y, crop_x>> and every source index <<"read", src_idx>>.  *)
(* sample_idx is a uint32_t pair.                                          *)
(***************************************************************************)
ct_augment_init(seed, epoch, flags) ==
    [seed |-> seed, epoch |-> epoch, flags |-> flags]

\* (sample_idx << 16) | low, for low below 2^31
AugOpId(sample_idx, low) ==
    <<BitOr(sample_idx[2], low \div 65536), low % 65536>>

\* horizontal_flip on a buffer that holds height rows of width elements: the
\* swaps of columns col and width - 1 - col reverse every row
horizontal_flip(buf, width, height) ==
    [i \in DOMAIN buf |->
        IF i < width * height
        THEN buf[(i \div width) * width + (width - 1 - (i % width))]
        ELSE buf[i]]

\* ct_prng_uniform for any uint32_t n, n and the result as uint32_t pairs
PrngUniformU32(seed, epoch, op_id, n) ==
    IF U32IsSmall(n) THEN U32(ct_prng_uniform(seed, epoch, op_id, U32Val(n)))
    ELSE Only({ <<r[4] * 256 + r[3], r[2] * 256 + r[1]>> :
                  r \in {I64DivMod(ct_prng(seed, epoch, op_id),
                                   <<n[2] % 256, n[2] \div 256, n[1] % 256, n[1] \div 256,
                                     0, 0, 0, 0>>,
                                   63, <<I64(0), I64(0)>>)[1]} })

\* src_idx = (crop_y + y) * src_width + (crop_x + x) on uint32_t
CropSrcIdx(crop_x, crop_y, y, x, src_width) ==
    U32Add(U32Mul(U32Add(crop_y, U32(y)), U32(src_width)), U32Add(crop_x, U32(x)))

RECURSIVE CropCopy(_, _, _, _, _, _, _, _)
\* the copy loops of random_crop from destination index dst on, input and
\* output being the same buffer c.buf, for a crop of no more elements than the
\* buffer has; c.events lists the source indices read, and a read outside the
\* buffer yields stray
CropCopy(c, dst, crop_x, crop_y, src_width, crop_width, crop_height, stray) ==
    IF dst >= crop_width * crop_height THEN c
    ELSE Only({ CropCopy([buf    |-> [c.buf EXCEPT ![dst] =
                                        IF U32IsSmall(src) /\ U32Val(src) \in DOMAIN c.buf
                                        THEN c.buf[U32Val(src)] ELSE stray],
                          events |-> Append(c.events, <<"read", src>>)],
                         dst + 1, crop_x, crop_y, src_width, crop_width, crop_height,
                         stray) :
                  src \in {CropSrcIdx(crop_x, crop_y, dst \div crop_width,
                                      dst % crop_width, src_width)} })

\* random_crop: max_x + 1 and max_y + 1 are computed on uint32_t, so a crop
\* larger than the source wraps around
random_crop(st, src_width, src_height, ctx, sample_idx) ==
    LET op_x == AugOpId(sample_idx, 1)
        op_y == AugOpId(sample_idx, 2)
        n_x  == U32Add(U32Sub(U32(src_width), U32(ctx.crop_width)), U32(1))
        n_y  == U32Add(U32Sub(U32(src_height), U32(ctx.crop_height)), U32(1))
    IN  Only({ Only({ [st EXCEPT
                         !.heap[st.sample.data] = c.buf,
                         !.sample.dims[0] = ctx.crop_height,
                         !.sample.dims[1] = ctx.crop_width,
                         !.sample.total_elements = ctx.crop_width * ctx.crop_height,
                         !.trace = @ \o <<<<"prf", op_x>>, <<"prf", op_y>>,
                                          <<"crop", crop_y, crop_x>>>> \o c.events] :
                        c \in {CropCopy([buf |-> st.heap[st.sample.data], events |-> <<>>],
                                        0, crop_x, crop_y, src_width,
                                        ctx.crop_width, ctx.crop_height, st.stray)} }) :
                 crop_x \in {PrngUniformU32(ctx.seed, ctx.epoch, op_x, n_x)},
                 crop_y \in {PrngUniformU32(ctx.seed, ctx.epoch, op_y, n_y)} })

\* (int32_t)((u >> 32) & 0xFFFF0000)
NoiseFixed(u) == I64ToI32(<<0, 0, u[7], u[8]>>)

\* noise = 2 * mul_q16(noise_std, sub32(u_fixed, FIXED_HALF)), with the flags
NoiseOf(noise_std, u, f) ==
    Only({ Only({ dvm_add32(scaled.val, scaled.val, scaled.faults) :
                    scaled \in {dvm_mul_q16(noise_std, centered.val, centered.faults)} }) :
             centered \in {dvm_sub32(NoiseFixed(u), FIXED_HALF, f)} })

\* one iteration of the loop of gaussian_noise: elements i and i + 1
NoisePair(ctx, sample_idx, i, st) ==
    LET op_id_1 == AugOpId(sample_idx, 4096 + i)
        op_id_2 == AugOpId(sample_idx, 4096 + i + 1)
        buf     == st.heap[st.sample.data]
    IN  Only({ Only({ Only({
            [st EXCEPT
               !.heap[st.sample.data] =
                   IF i + 1 < st.sample.total_elements
                   THEN [@ EXCEPT ![i] = first.val,
                                  ![i + 1] = dvm_add32(buf[i + 1], noise_2.val,
                                                       first.faults).val]
                   ELSE [@ EXCEPT ![i] = first.val],
               !.faults =
                   IF i + 1 < st.sample.total_elements
                   THEN dvm_add32(buf[i + 1], noise_2.val, first.faults).faults
                   ELSE first.faults,
               !.trace = @ \o <<<<"prf", op_id_1>>, <<"prf", op_id_2>>>>] :
              first \in {dvm_add32(buf[i], noise_1.val, noise_2.faults)} }) :
              noise_2 \in {NoiseOf(ctx.noise_std, ct_prng(ctx.seed, ctx.epoch, op_id_2),
                                   noise_1.faults)} }) :
              noise_1 \in {NoiseOf(ctx.noise_std, ct_prng(ctx.seed, ctx.epoch, op_id_1),
                                   st.faults)} })

RECURSIVE gaussian_noise(_, _, _, _)
\* the loop "for (i = 0; i < total_elements; i += 2)" from iteration i on
gaussian_noise(ctx, sample_idx, i, st) ==
    IF ~(i < st.sample.total_elements) THEN st
    ELSE Only({ gaussian_noise(ctx, sample_idx, i + 2, t) :
                  t \in {NoisePair(ctx, sample_idx, i, st)} })

\* "if (ctx->flags.h_flip)": the decision draw and the flip
AugFlipStage(ctx, sample_idx, width, height, st) ==
    IF ctx.flags.h_flip = 0 THEN st
    ELSE Only({ [st EXCEPT
                   !.heap[st.sample.data] =
                       IF rand[1] % 2 = 1 THEN horizontal_flip(@, width, height) ELSE @,
                   !.trace = @ \o (IF rand[1] % 2 = 1
                                    THEN <<<<"prf", AugOpId(sample_idx, 256)>>,
                                           <<"step", "horizontal_flip">>>>
                                    ELSE <<<<"prf", AugOpId(sample_idx, 256)>>>>)] :
                  rand \in {ct_prng(ctx.seed, ctx.epoch, AugOpId(sample_idx, 256))} })

\* "if (ctx->flags.random_crop && ctx->crop_height > 0 && ctx->crop_width > 0)"
AugCropStage(ctx, sample_idx, width, height, st) ==
    IF ~(ctx.flags.random_crop = 1 /\ ctx.crop_height > 0 /\ ctx.crop_width > 0) THEN st
    ELSE random_crop([st EXCEPT !.trace = Append(@, <<"step", "random_crop">>)],
                     width, height, ctx, sample_idx)

\* "if (ctx->flags.gaussian_noise && ctx->noise_std > 0)"
AugNoiseStage(ctx, sample_idx, st) ==
    IF ~(ctx.flags.gaussian_noise = 1 /\ ctx.noise_std > 0) THEN st
    ELSE gaussian_noise(ctx, sample_idx, 0,
                        [st EXCEPT !.trace = Append(@, <<"step", "additive_noise">>)])

\* memcpy(output, input) makes output->data the input's buffer; the stages
\* then work on that buffer.  stray is the value that a read outside the
\* buffer yields.
ct_augment_sample(ctx, input, output, sample_idx, heap, f, stray) ==
    LET height == input.dims[0]
        width  == IF input.ndims > 1 THEN input.dims[1] ELSE 1
    IN  Only({ Only({ AugNoiseStage(ctx, sample_idx, cropped) :
                        cropped \in {AugCropStage(ctx, sample_idx, width, height,
                                                  flipped)} }) :
                 flipped \in {AugFlipStage(ctx, sample_idx, width, height,
                                           [sample |-> input, heap |-> heap,
                                            faults |-> f, trace |-> <<>>,
                                            stray |-> stray])} })

(***************************************************************************)
(* State                                                                   *)
(***************************************************************************)
VARIABLES
    shuf_N,      \* N of the permutation under test
    shuf_ctx,    \* ct_shuffle_ctx_t: [seed, epoch]
    seen,        \* seen[r]: how often output r was produced by the sweep 0..N-1
    next_i,      \* next index of the sweep
    call,        \* the last ct_permute_index call: index, ret, exit path
    faults,      \* the caller's ct_fault_flags_t, threaded through the pipeline
    m_leaves,    \* leaves[] handed to ct_merkle_root
    m_count,     \* count handed to ct_merkle_root
    m_out,       \* the caller's out_root buffer
    m_call,      \* what the last ct_merkle_root call did to its scratch array
    dataset,     \* ct_dataset_t: [samples, num_samples]
    heap,        \* the int32_t buffers the samples point to
    batch,       \* the ct_batch_t that ct_batch_fill fills
    out_batch,   \* the ct_batch_t that ct_normalize_batch writes
    fill_io,     \* the last ct_batch_fill call: its arguments and array accesses
    last_op,     \* the last operation on the batch
    verify_ret,  \* what the last ct_batch_verify call returned
    raised,      \* a fault flag was set since the batch (the epoch) was begun
    prov,        \* ct_provenance_t
    epoch_run,   \* the epoch in progress: batches done, their hashes, prov before
    chains,      \* two ct_provenance_t, each with the arguments of its history
    chain_last,  \* the last call on a chain: which, what, the chain before it
    dvm_last,    \* the last call of a DVM primitive: arguments, result, flags before
    bij_last     \* the last call of ct_shuffle_verify_bijection: num_samples, result

shufVars == <<shuf_N, shuf_ctx, seen, next_i, call>>

merkleVars == <<m_leaves, m_count, m_out, m_call>>

batchVars == <<dataset, heap, batch, out_batch, fill_io, last_op, verify_ret>>

provVars == <<prov, epoch_run>>

chainVars == <<chains, chain_last>>

\* the variables of the specifications of single units
unitVars == <<chainVars, dvm_last, bij_last>>

vars == <<shufVars, faults, merkleVars, batchVars, raised, provVars, unitVars>>

(***************************************************************************)
(* ct_types.h : ct_fault_flags_t; primitives.c : ct_fault_clear,           *)
(* ct_has_fault                                                            *)
(***************************************************************************)
ct_fault_clear ==
    [overflow |-> 0, underflow |-> 0, div_zero |-> 0, domain |-> 0,
     precision |-> 0, grad_floor |-> 0, chain_invalid |-> 0]

ct_has_fault(f) ==
    \/ f.overflow = 1 \/ f.underflow = 1 \/ f.div_zero = 1 \/ f.domain = 1
    \/ f.precision = 1 \/ f.grad_floor = 1 \/ f.chain_invalid = 1

\* a named flag of the structure is set (0 for a name the structure lacks)
FlagSet(f, name) == name \in DOMAIN f /\ f[name] = 1

(***************************************************************************)
(* Idle values of the parts a specification does not exercise              *)
(***************************************************************************)
NoCall == [index |-> -1, ret |-> -1, path |-> "none", iterations |-> 0]

NoMerkleCall == [done |-> FALSE, uninit |-> {}, outside |-> FALSE]

OutRootBefore == Raw(238)
\* the bytes of the caller's out_root buffer before the call

ShuffleIdle ==
    /\ shuf_N = 0
    /\ shuf_ctx = [seed |-> 0, epoch |-> 0]
    /\ seen = <<>>
    /\ next_i = 0
    /\ call = NoCall

MerkleIdle ==
    /\ m_leaves = <<>>
    /\ m_count = 0
    /\ m_out = OutRootBefore
    /\ m_call = NoMerkleCall

NoFill == [done |-> FALSE, batch_index |-> U32(0), epoch |-> 0, reads |-> {}, writes |-> {}]

NoEpoch == [next_batch |-> 0, hashes |-> <<>>, before |-> <<>>, advanced |-> FALSE]

BatchIdle ==
    /\ dataset = [samples |-> <<>>, num_samples |-> 0]
    /\ heap = <<>>
    /\ batch = ct_batch_init(<<>>, <<>>, 0)
    /\ out_batch = ct_batch_init(<<>>, <<>>, 0)
    /\ fill_io = NoFill
    /\ last_op = "none"
    /\ verify_ret = -1
    /\ raised = FALSE

ProvIdle ==
    /\ prov = ct_provenance_init(ZeroHash, ZeroHash, 0)
    /\ epoch_run = NoEpoch

NoChainCall == [op |-> "none", who |-> 0, before |-> <<>>, epoch_hash |-> <<>>]

ChainIdle ==
    /\ chains = <<>>
    /\ chain_last = NoChainCall

NoDvmCall == [op |-> "none", args |-> <<>>, ret |-> 0, before |-> ct_fault_clear]

NoBijCall == [op |-> "none", num_samples |-> 0, ret |-> 0]

UnitIdle ==
    /\ ChainIdle
    /\ dvm_last = NoDvmCall
    /\ bij_last = NoBijCall

(***************************************************************************)
(* Permutation: a sweep over 0..N-1 as in test_bijection_*, and single     *)
(* calls with arbitrary indices as in test_range_out_of_bounds_input       *)
(***************************************************************************)
ShuffleSizes == 0 .. MaxN

ct_shuffle_init(seed, epoch) == [seed |-> seed, epoch |-> epoch]

InitShuffle ==
    /\ shuf_N \in ShuffleSizes
    /\ \E seed \in Seeds, epoch \in Epochs : shuf_ctx = ct_shuffle_init(seed, epoch)
    /\ seen = [r \in 0 .. (shuf_N - 1) |-> 0]
    /\ next_i = 0
    /\ call = NoCall
    /\ faults = ct_fault_clear
    /\ MerkleIdle
    /\ BatchIdle
    /\ ProvIdle
    /\ UnitIdle

CallRecord(index, r) ==
    [index |-> index, ret |-> r.ret, path |-> r.path, iterations |-> r.iterations]

\* one iteration of the sweep "for (i = 0; i < N; i++) seen[permute(i)]++"
PermuteSweepStep ==
    /\ next_i < shuf_N
    /\ LET r == ct_permute_index(next_i, shuf_N, shuf_ctx.seed, shuf_ctx.epoch)
       IN  /\ call' = CallRecord(next_i, r)
           /\ seen' = IF r.ret \in DOMAIN seen
                      THEN [seen EXCEPT ![r.ret] = @ + 1]
                      ELSE seen
    /\ next_i' = next_i + 1
    /\ UNCHANGED <<unitVars, shuf_N, shuf_ctx, faults, merkleVars, batchVars, raised, provVars>>

CallIndices(N) == N .. (N + ExtraIdx)

\* a single call with an index that is not below N
PermuteCall ==
    /\ \E index \in CallIndices(shuf_N) :
         call' = CallRecord(index,
                   ct_permute_index(index, shuf_N, shuf_ctx.seed, shuf_ctx.epoch))
    /\ UNCHANGED <<unitVars, shuf_N, shuf_ctx, seen, next_i, faults, merkleVars, batchVars,
                   raised, provVars>>

RECURSIVE VerifyLoop(_, _, _, _, _)
\* the loop "for (i = 0; i < num_samples && i < 10; i++)" from i on: 0 as soon
\* as a result is not below N, 1 at the end
VerifyLoop(i, seed, epoch, N, num_samples) ==
    IF ~(i < num_samples /\ i < 10) THEN 1
    ELSE IF ct_permute_index(i, N, seed, epoch).ret >= N THEN 0
    ELSE VerifyLoop(i + 1, seed, epoch, N, num_samples)

ct_shuffle_verify_bijection(seed, epoch, N, num_samples) ==
    IF num_samples > N THEN 0
    ELSE VerifyLoop(0, seed, epoch, N, num_samples)

\* ct_shuffle_verify_bijection on the permutation that was swept
VerifyBijection ==
    /\ next_i = shuf_N
    /\ \E num_samples \in 0 .. (shuf_N + 1) :
         bij_last' = [op |-> "verify", num_samples |-> num_samples,
                      ret |-> ct_shuffle_verify_bijection(shuf_ctx.seed, shuf_ctx.epoch,
                                                          shuf_N, num_samples)]
    /\ UNCHANGED <<chainVars, dvm_last, shufVars, faults, merkleVars, batchVars, raised,
                   provVars>>

NextShuffle == PermuteSweepStep \/ PermuteCall \/ VerifyBijection

SpecShuffle == InitShuffle /\ [][NextShuffle]_vars

(***************************************************************************)
(* Claims on the permutation                                               *)
(***************************************************************************)
SweepDone == next_i = shuf_N

\* C1: for every N >= 1, seed and epoch, ct_permute_index restricted to
\* 0..N-1 is a bijection onto 0..N-1: after the sweep over all indices every
\* output 0..N-1 has been produced exactly once.
C1_Bijection ==
    (SweepDone /\ shuf_N >= 1) => \A r \in 0 .. (shuf_N - 1) : seen[r] = 1

\* C2: every call of ct_permute_index with N >= 1 returns a value in [0, N)
\* whatever the index and the exit path, and returns 0 when N <= 1.
C2_RangeSafe ==
    call # NoCall =>
        /\ (shuf_N >= 1 => (0 <= call.ret /\ call.ret < shuf_N))
        /\ (shuf_N <= 1 => call.ret = 0)

C2_Witness ==
    /\ call.path = "fallback"
    /\ shuf_N >= 2
    /\ call.iterations >= 2

(***************************************************************************)
(* Merkle root: one call of ct_merkle_root on a caller's leaf array, as in *)
(* test_merkle_root_*; ct_hash_epoch hands it the batch hashes of an epoch *)
(***************************************************************************)
LeafDigests == {ZeroHash, Raw(17), Raw(34)}

\* what an uninitialised scratch slot can hold
StackDigests == {ZeroHash, Raw(170)}

LargeCounts == {MerkleCopyLimit, MerkleCopyLimit + 1}

InitMerkle ==
    /\ ShuffleIdle
    /\ faults = ct_fault_clear
    /\ m_count \in (0 .. MaxLeaves) \cup LargeCounts
    /\ IF m_count <= MaxLeaves
       THEN m_leaves \in [0 .. (m_count - 1) -> LeafDigests]
       ELSE m_leaves = [i \in 0 .. (m_count - 1) |-> Raw(1 + (i % 250))]
    /\ m_out = OutRootBefore
    /\ m_call = NoMerkleCall
    /\ BatchIdle
    /\ ProvIdle
    /\ UnitIdle

MerkleRootCall ==
    /\ ~m_call.done
    /\ \E stack \in StackDigests :
         LET r == ct_merkle_root(m_leaves, m_count, stack)
         IN  /\ m_out' = r.root
             /\ m_call' = [done |-> TRUE, uninit |-> r.uninit, outside |-> r.outside]
    /\ UNCHANGED <<unitVars, shufVars, faults, m_leaves, m_count, batchVars, raised, provVars>>

NextMerkle == MerkleRootCall

SpecMerkle == InitMerkle /\ [][NextMerkle]_vars

(***************************************************************************)
(* Claims on the Merkle root                                               *)
(***************************************************************************)
\* the reference definition: pair adjacent nodes level by level, an odd last
\* node is promoted unchanged
RefLevel(l) ==
    [i \in 1 .. ((Len(l) + 1) \div 2) |->
        IF 2 * i <= Len(l) THEN Sha(<<1, l[2 * i - 1], l[2 * i]>>) ELSE l[2 * i - 1]]

RECURSIVE RefRoot(_)
RefRoot(l) ==
    IF Len(l) = 0 THEN Raw(0)
    ELSE IF Len(l) = 1 THEN l[1]
    ELSE RefRoot(RefLevel(l))

LeafSeq == [i \in 1 .. m_count |-> m_leaves[i - 1]]

C10_CapacityRefused ==
    (m_call.done /\ m_count > MerkleCopyLimit) =>
        /\ FlagSet(faults, "domain")
        /\ m_out = OutRootBefore
        /\ m_call.uninit = {}

(***************************************************************************)
(* Batches: a dataset of one-element samples as in test_batch_*, a batch    *)
(* filled with ct_batch_fill, normalised into a second batch as in          *)
(* test_normalize_batch, verified, and its batch_hash corrupted as in       *)
(* test_batch_verify_corrupted                                              *)
(***************************************************************************)
MaxSamples == 3

MaxBatch == 3

MaxBatchIdx == 2

DataKinds == {"plain", "extreme"}

\* the element of sample i: (i + 2) << 16, or INT32_MAX for sample 0 of an
\* "extreme" dataset
ElementOf(kind, i) == IF kind = "extreme" /\ i = 0 THEN INT32_MAX ELSE (i + 2) * FIXED_ONE

OneElementSample(buffer) ==
    [version |-> 1, dtype |-> 0, ndims |-> 1,
     dims |-> [i \in 0 .. (CT_MAX_DIMS - 1) |-> IF i = 0 THEN 1 ELSE 0],
     total_elements |-> 1, data |-> buffer]

\* buffers 1..N belong to the dataset, N+1..N+batch_size to the output batch
DatasetOf(N) ==
    [samples |-> [i \in 0 .. (N - 1) |-> OneElementSample(i + 1)], num_samples |-> N]

HeapOf(kind, N, batch_size) ==
    [b \in 1 .. (N + batch_size) |->
        [e \in {0} |-> IF b <= N THEN ElementOf(kind, b - 1) ELSE 0]]

BatchSeeds == {6}

\* small batch indices, and 2^31 and 2^32 - 1
BatchIndices == {U32(i) : i \in 0 .. MaxBatchIdx} \cup {<<32768, 0>>, <<65535, 65535>>}

\* the scratch array of ct_merkle_root before the call; with batch_size within
\* MerkleCopyLimit no slot of it is read before it is written
UnreadStack == Raw(170)

\* what a read outside dataset.samples can return
StraySamples == {ZeroSample, [ZeroSample EXCEPT !.version = 1]}

NormalizeCtxs ==
    {ct_normalize_init(<<>>, <<>>, 0)} \cup
    {ct_normalize_init([i \in {0} |-> mean], [i \in {0} |-> FIXED_ONE], 1) :
        mean \in {0, 0 - FIXED_ONE}}

BatchSetup(kind, N, batch_size) ==
    /\ dataset = DatasetOf(N)
    /\ heap = HeapOf(kind, N, batch_size)
    /\ batch = ct_batch_init([i \in 0 .. (batch_size - 1) |-> ZeroSample],
                             [i \in 0 .. (batch_size - 1) |-> ZeroHash], batch_size)
    /\ out_batch = ct_batch_init(
                       [i \in 0 .. (batch_size - 1) |-> OneElementSample(N + 1 + i)],
                       <<>>, batch_size)
    /\ fill_io = NoFill
    /\ last_op = "none"
    /\ verify_ret = -1
    /\ raised = FALSE

InitBatch ==
    /\ ShuffleIdle
    /\ MerkleIdle
    /\ ProvIdle
    /\ UnitIdle
    /\ faults = ct_fault_clear
    /\ \E kind \in DataKinds, N \in 0 .. MaxSamples, batch_size \in 0 .. MaxBatch :
         BatchSetup(kind, N, batch_size)

\* the last fill stayed inside dataset.samples and inside the batch's arrays
FillInBounds ==
    /\ fill_io.reads \subseteq 0 .. (dataset.num_samples - 1)
    /\ fill_io.writes \subseteq 0 .. (batch.batch_size - 1)

\* the caller's output batch and its buffers, as allocated for each batch
FreshOutput(N, batch_size) ==
    ct_batch_init([i \in 0 .. (batch_size - 1) |-> OneElementSample(N + 1 + i)],
                  <<>>, batch_size)

FreshHeap(h, N) == [b \in DOMAIN h |-> IF b <= N THEN h[b] ELSE [e \in {0} |-> 0]]

\* the value TamperSample writes, into a data buffer or into a version field
TamperedValue == 9 * FIXED_ONE

SampleTampered ==
    \/ \E i \in 0 .. (batch.batch_size - 1) : batch.samples[i].version = TamperedValue
    \/ \E p \in DOMAIN heap : 0 \in DOMAIN heap[p] /\ heap[p][0] = TamperedValue

\* a batch is begun at the start and after the previous one passed
\* verification; a run ends with the batch whose sample was changed
BatchFill ==
    /\ FillInBounds
    /\ last_op = "none" \/ (last_op = "verify" /\ verify_ret = 1)
    /\ ~SampleTampered
    /\ \E batch_index \in BatchIndices, epoch \in Epochs, seed \in BatchSeeds,
          stray \in StraySamples :
         LET r == ct_batch_fill(batch, dataset, batch_index, epoch, seed, heap,
                                UnreadStack, stray)
         IN  /\ batch' = r.batch
             /\ fill_io' = [done |-> TRUE, batch_index |-> batch_index, epoch |-> epoch,
                            reads |-> r.reads, writes |-> r.writes]
    /\ out_batch' = FreshOutput(dataset.num_samples, batch.batch_size)
    /\ heap' = FreshHeap(heap, dataset.num_samples)
    /\ last_op' = "fill"
    /\ verify_ret' = -1
    /\ raised' = FALSE
    /\ UNCHANGED <<unitVars, shufVars, merkleVars, provVars, faults, dataset>>

\* the filled batch is normalised into the output batch; raised records
\* whether the call set a flag, found by running it on cleared flags when
\* some flag was set before
BatchNormalize ==
    /\ last_op = "fill"
    /\ FillInBounds
    /\ \E ctx \in NormalizeCtxs :
         \E r \in {ct_normalize_batch(ctx, batch, out_batch, heap, faults)} :
             /\ out_batch' = r.batch
             /\ heap' = r.heap
             /\ faults' = r.faults
             /\ raised' = IF ct_has_fault(faults)
                          THEN ct_has_fault(ct_normalize_batch(ctx, batch, out_batch,
                                                               heap, ct_fault_clear).faults)
                          ELSE ct_has_fault(r.faults)
    /\ last_op' = "normalize"
    /\ verify_ret' = -1
    /\ UNCHANGED <<unitVars, shufVars, merkleVars, provVars, dataset, batch, fill_io>>

BatchVerify ==
    /\ fill_io.done
    /\ FillInBounds
    /\ verify_ret' = ct_batch_verify(batch, UnreadStack)
    /\ last_op' = "verify"
    /\ UNCHANGED <<unitVars, shufVars, merkleVars, provVars, faults, dataset, heap, batch,
                   out_batch, fill_io, raised>>

TamperBytes == {0, 31}

\* batch.batch_hash[i] ^= 0xFF
TamperHash ==
    /\ fill_io.done
    /\ FillInBounds
    /\ \E i \in TamperBytes : batch' = [batch EXCEPT !.batch_hash = XorByte(@, i)]
    /\ last_op' = "tamper"
    /\ verify_ret' = -1
    /\ UNCHANGED <<unitVars, shufVars, merkleVars, provVars, faults, dataset, heap, out_batch,
                   fill_io, raised>>

\* between two verifications a sample of the batch is changed: its version in
\* batch.samples[i], or element 0 of its data; sample_hashes and batch_hash
\* are not touched, and verify_ret keeps the earlier result.  One change is
\* made per run, to a batch that was filled.
TamperSample ==
    /\ last_op = "verify"
    /\ FillInBounds
    /\ ~SampleTampered
    /\ \E i \in 0 .. (batch.batch_size - 1), field \in {"version", "data"} :
         IF field = "data"
         THEN /\ batch.samples[i].data \in DOMAIN heap
              /\ batch.samples[i].total_elements > 0
              /\ heap' = [heap EXCEPT ![batch.samples[i].data][0] = TamperedValue]
              /\ batch' = batch
         ELSE /\ batch' = [batch EXCEPT !.samples[i].version = TamperedValue]
              /\ heap' = heap
    /\ last_op' = "tamper_sample"
    /\ UNCHANGED <<unitVars, shufVars, merkleVars, provVars, faults, dataset, out_batch,
                   fill_io, raised, verify_ret>>

NextBatch == BatchFill \/ BatchNormalize \/ BatchVerify \/ TamperHash \/ TamperSample

SpecBatch == InitBatch /\ [][NextBatch]_vars

(***************************************************************************)
(* Claims on batches                                                        *)
(***************************************************************************)
\* batch_hash is as the last fill or verify left it
Untampered == batch.batch_hash[1] # "xor"

\* the batch index of the last fill, when it is one whose start index
\* batch_index * batch_size, taken as an integer, is below N
FillStartBelowN ==
    /\ fill_io.done
    /\ U32IsSmall(fill_io.batch_index)
    /\ U32Val(fill_io.batch_index) * batch.batch_size < dataset.num_samples

\* min(batch_size, N - batch_index * batch_size)
Effective ==
    LET rest == dataset.num_samples - U32Val(fill_io.batch_index) * batch.batch_size
    IN  IF rest < batch.batch_size THEN rest ELSE batch.batch_size

\* C4: a batch whose construction set a fault flag fails verification:
\* ct_batch_verify returns 0 for it.
C4_FaultFailsVerify ==
    (last_op = "verify" /\ raised) => verify_ret = 0

\* C5: whenever the recomputed Merkle root differs from the stored batch_hash,
\* ct_batch_verify returns 0 and the hash_mismatch fault flag is set.
C5_MismatchFlagged ==
    (last_op = "verify" /\ ct_hash_batch(batch, UnreadStack).root # batch.batch_hash) =>
        /\ verify_ret = 0
        /\ FlagSet(faults, "hash_mismatch")

\* C6: after a fill whose start index is below N, every ct_batch_verify of
\* the batch returns 1, however many are made, and a ct_batch_verify call
\* leaves samples, sample_hashes, batch_hash and batch_index as they were.
C6_VerifyAccepts ==
    /\ []((last_op = "verify" /\ FillStartBelowN /\ Untampered) => verify_ret = 1)
    /\ [][last_op' = "verify" => batch' = batch]_vars

C6_Witness ==
    /\ last_op = "verify"
    /\ FillStartBelowN
    /\ Untampered
    /\ verify_ret = 1
    /\ 0 < Effective /\ Effective < batch.batch_size
    /\ raised

\* C7: after ct_batch_fill, batch_hash is the Merkle root of the first
\* effective = min(batch_size, N - batch_index * batch_size) sample hashes
\* only; the padding slots of a partial batch are not hashed.
C7_HashOfEffective ==
    (last_op = "fill" /\ FillStartBelowN) =>
        batch.batch_hash = RefRoot([i \in 1 .. Effective |-> batch.sample_hashes[i - 1]])

\* C8: for every batch_index ct_batch_fill reads dataset.samples only below N
\* and writes batch.samples and batch.sample_hashes only below batch_size.
C8_FillStaysInBounds ==
    last_op = "fill" => FillInBounds

\* C14: a batch hash identifies its (epoch, batch_index): a ct_batch_fill of the
\* same dataset with the same seed but another epoch or another batch_index,
\* itself inside the dataset, never yields the batch_hash of the last fill.
C14_HashIdentifiesBatch ==
    (last_op = "fill" /\ FillInBounds /\ dataset.num_samples > 0) =>
        \A batch_index \in BatchIndices, epoch \in Epochs, seed \in BatchSeeds :
            LET other == ct_batch_fill(batch, dataset, batch_index, epoch, seed, heap,
                                       UnreadStack, ZeroSample)
            IN  (/\ <<epoch, batch_index>> # <<fill_io.epoch, fill_io.batch_index>>
                 /\ other.reads \subseteq 0 .. (dataset.num_samples - 1)
                 /\ other.reads # {}
                 /\ other.writes \subseteq 0 .. (batch.batch_size - 1))
                => other.batch.batch_hash # batch.batch_hash

(***************************************************************************)
(* Epochs: the pipeline of the README.  Every batch of the epoch is filled  *)
(* and normalised and its batch_hash collected; then ct_hash_epoch and      *)
(* ct_provenance_advance are called, and the fault flags are looked at only *)
(* afterwards.                                                              *)
(***************************************************************************)
DatasetDigests == {Raw(1), Raw(2)}

ConfigDigest == Raw(3)

\* the number of batches of an epoch: ceil(N / batch_size)
NumBatches == (dataset.num_samples + batch.batch_size - 1) \div batch.batch_size

InitProv ==
    /\ ShuffleIdle
    /\ MerkleIdle
    /\ UnitIdle
    /\ faults = ct_fault_clear
    /\ \E kind \in DataKinds, N \in 1 .. MaxSamples, batch_size \in 1 .. MaxBatch :
         BatchSetup(kind, N, batch_size)
    /\ \E dataset_hash \in DatasetDigests, seed \in BatchSeeds :
         prov = ct_provenance_init(dataset_hash, ConfigDigest, seed)
    /\ epoch_run = [NoEpoch EXCEPT !.before = prov]

\* the body of the loop over the batches of the epoch
EpochBatch ==
    /\ prov.current_epoch <= MaxEpoch
    /\ epoch_run.next_batch < NumBatches
    /\ \E seed \in BatchSeeds, ctx \in NormalizeCtxs :
         \E filled \in {ct_batch_fill(batch, dataset, U32(epoch_run.next_batch),
                                      prov.current_epoch, seed, heap, UnreadStack,
                                      ZeroSample)} :
           \E r \in {ct_normalize_batch(ctx, filled.batch,
                                        FreshOutput(dataset.num_samples, batch.batch_size),
                                        FreshHeap(heap, dataset.num_samples), faults)} :
             /\ batch' = filled.batch
             /\ fill_io' = [done |-> TRUE, batch_index |-> U32(epoch_run.next_batch),
                            epoch |-> prov.current_epoch,
                            reads |-> filled.reads, writes |-> filled.writes]
             /\ out_batch' = r.batch
             /\ heap' = r.heap
             /\ faults' = r.faults
             /\ raised' = ((epoch_run.next_batch > 0 /\ raised) \/ ct_has_fault(r.faults))
             /\ epoch_run' = [next_batch |-> epoch_run.next_batch + 1,
                              hashes |-> IF epoch_run.next_batch = 0
                                         THEN <<filled.batch.batch_hash>>
                                         ELSE Append(epoch_run.hashes,
                                                     filled.batch.batch_hash),
                              before |-> prov,
                              advanced |-> FALSE]
    /\ last_op' = "batch"
    /\ UNCHANGED <<unitVars, shufVars, merkleVars, dataset, verify_ret, prov>>

\* ct_hash_epoch over the collected batch hashes, then ct_provenance_advance
EpochAdvance ==
    /\ last_op = "batch"
    /\ epoch_run.next_batch = NumBatches
    /\ prov' = ct_provenance_advance(prov,
                 ct_hash_epoch([i \in 0 .. (NumBatches - 1) |-> epoch_run.hashes[i + 1]],
                               NumBatches, UnreadStack).root)
    /\ epoch_run' = [epoch_run EXCEPT !.next_batch = 0, !.advanced = TRUE]
    /\ last_op' = "advance"
    /\ UNCHANGED <<unitVars, shufVars, merkleVars, dataset, heap, batch, out_batch, fill_io,
                   verify_ret, faults, raised>>

NextProv == EpochBatch \/ EpochAdvance

SpecProv == InitProv /\ [][NextProv]_vars

\* C3: if a fault flag was set while the batches of an epoch were built, the
\* provenance chain is not advanced for that epoch: current_hash, prev_hash,
\* current_epoch and total_epochs are what they were before the epoch.
C3_NoAdvanceOnFault ==
    (last_op = "advance" /\ raised) => prov = epoch_run.before


(***************************************************************************)
(* Provenance chains on their own: two ct_provenance_t objects, each       *)
(* initialised and advanced with arbitrary epoch hashes as in              *)
(* test_provenance_multiple_epochs and test_provenance_chain_deterministic. *)
(* Next to each object the model keeps the arguments of its history.       *)
(***************************************************************************)
MaxAdvances == 2

ChainIds == {1, 2}

ConfigDigests == {Raw(3), Raw(4)}

ChainSeeds == {6, 7}

\* epoch hashes: a digest, and one that is itself the h_0 of a chain
EpochDigests == {Raw(10), Sha(InitHashInput(Raw(1), Raw(3), 6))}

\* a chain after ct_provenance_init, with the arguments it was given
ChainStart(dataset_hash, config_hash, seed) ==
    [prov         |-> ct_provenance_init(dataset_hash, config_hash, seed),
     dataset_hash |-> dataset_hash,
     config_hash  |-> config_hash,
     seed         |-> seed,
     epoch_hashes |-> <<>>]

InitChain ==
    /\ ShuffleIdle
    /\ MerkleIdle
    /\ BatchIdle
    /\ faults = ct_fault_clear
    /\ ProvIdle
    /\ \E dataset_hash \in DatasetDigests, config_hash \in ConfigDigests, seed \in ChainSeeds :
         chains = [c \in ChainIds |-> ChainStart(dataset_hash, config_hash, seed)]
    /\ chain_last = [NoChainCall EXCEPT !.op = "init"]
    /\ dvm_last = NoDvmCall
    /\ bij_last = NoBijCall

\* ct_provenance_init on an object that may have been used before
ChainInit(c) ==
    /\ \E dataset_hash \in DatasetDigests, config_hash \in ConfigDigests, seed \in ChainSeeds :
         chains' = [chains EXCEPT ![c] = ChainStart(dataset_hash, config_hash, seed)]
    /\ chain_last' = [NoChainCall EXCEPT !.op = "init", !.who = c]
    /\ UNCHANGED <<shufVars, faults, merkleVars, batchVars, raised, provVars, dvm_last, bij_last>>

\* ct_provenance_advance with any epoch hash
ChainAdvance(c) ==
    /\ Len(chains[c].epoch_hashes) < MaxAdvances
    /\ \E epoch_hash \in EpochDigests :
         /\ chains' = [chains EXCEPT
                         ![c].prov = ct_provenance_advance(chains[c].prov, epoch_hash),
                         ![c].epoch_hashes = Append(chains[c].epoch_hashes, epoch_hash)]
         /\ chain_last' = [op |-> "advance", who |-> c, before |-> chains[c].prov,
                           epoch_hash |-> epoch_hash]
    /\ UNCHANGED <<shufVars, faults, merkleVars, batchVars, raised, provVars, dvm_last, bij_last>>

NextChain == \E c \in ChainIds : ChainInit(c) \/ ChainAdvance(c)

SpecChain == InitChain /\ [][NextChain]_vars

\* C11: after ct_provenance_init prev_hash = current_hash = h0 and both epoch
\* counters are 0; after k further ct_provenance_advance calls both counters
\* are k.
C11_EpochCounters ==
    \A c \in DOMAIN chains :
        LET ch == chains[c]
            k  == Len(ch.epoch_hashes)
            h0 == Sha(<<3, ch.dataset_hash, ch.config_hash>> \o LE8(ch.seed))
        IN  /\ ch.prov.current_epoch = k
            /\ ch.prov.total_epochs = k
            /\ k = 0 => (ch.prov.prev_hash = h0 /\ ch.prov.current_hash = h0)

C11_Witness ==
    /\ chain_last.op = "advance"
    /\ chains[chain_last.who].prov.current_epoch = 2
    /\ \E c \in DOMAIN chains : chains[c].epoch_hashes = <<>>

ChainHistory(ch) == <<ch.dataset_hash, ch.config_hash, ch.seed, ch.epoch_hashes>>

\* C13: two chains have the same current_hash only if they were initialised
\* with the same (dataset_hash, config_hash, seed) and advanced equally often
\* with the same epoch hashes; an init hash never equals an advance hash.
C13_CommitsToHistory ==
    \A c, d \in DOMAIN chains :
        chains[c].prov.current_hash = chains[d].prov.current_hash =>
            ChainHistory(chains[c]) = ChainHistory(chains[d])

C13_Witness ==
    /\ chains[1].prov.current_hash = chains[2].prov.current_hash
    /\ Len(chains[1].epoch_hashes) = 2
    /\ chain_last.op = "advance"


(***************************************************************************)
(* DVM primitives, each called once on flags in any state a caller can     *)
(* hand over (test_primitives.c sets flags directly), and ct_fault_clear.  *)
(***************************************************************************)
DvmValues ==
    {INT32_MIN, INT32_MIN + 1, 0 - FIXED_ONE, 0 - 3, 0 - 1, 0, 1, 2, 3,
     FIXED_HALF, FIXED_ONE, INT32_MAX - 1, INT32_MAX}

FlagStates ==
    {ct_fault_clear,
     [ct_fault_clear EXCEPT !.overflow = 1],
     [ct_fault_clear EXCEPT !.underflow = 1, !.domain = 1],
     [n \in DOMAIN ct_fault_clear |-> 1]}

\* the int64_t q * 2^t
DvmWide(q, t) == I64Mul(I64(q), I64OneShl(t))

\* int64_t values around and beyond the int32_t range: <<q, t>> is q * 2^t
ClampInputs ==
    {<<q, 0>> : q \in DvmValues} \cup {<<q, t>> : q \in {0 - 3, 0 - 1, 1, 3}, t \in {30, 31, 61}}

\* quotients of dvm_round_shift_rne: <<q, t>> is q * 2^t
RneQuotients ==
    {<<q, 0>> : q \in {INT32_MIN, 0 - 3, 0 - 2, 0 - 1, 0, 1, 2, 3, INT32_MAX}}
        \cup {<<q, 8>> : q \in {INT32_MIN, 0 - 8388609, 0 - 8388608, 8388607, 8388608,
                                 INT32_MAX}}

\* fractional parts <<a, d>>: a * 2^(shift-1) + d
RneFracs == {<<0, 0>>, <<0, 1>>, <<1, 0 - 1>>, <<1, 0>>, <<1, 1>>, <<2, 0 - 1>>}

RneShifts == 0 .. 64

\* the fractional part <<a, d>> exists for this shift (0 <= frac < 2^shift)
RneFracFits(fr, shift) ==
    \/ fr = <<0, 0>>
    \/ shift = 1 /\ fr = <<1, 0>>
    \/ shift >= 2 /\ shift <= 62

\* the least k with -2^k <= q < 2^k
QBits(q) ==
    IF \E k \in 0 .. 30 : 0 - Pow2(k) <= q /\ q < Pow2(k)
    THEN CHOOSE k \in 0 .. 30 : /\ 0 - Pow2(k) <= q /\ q < Pow2(k)
                                /\ \A j \in 0 .. (k - 1) : ~(0 - Pow2(j) <= q /\ q < Pow2(j))
    ELSE 31

\* the int64_t (q * 2^t) * 2^shift + a * 2^(shift-1) + d
RneInput(qt, fr, shift) ==
    I64Add(DvmWide(qt[1], qt[2] + shift),
           I64Add(IF fr[1] = 0 THEN I64(0) ELSE I64OneShl(shift + fr[1] - 2), I64(fr[2])))

InitDvm ==
    /\ ShuffleIdle
    /\ MerkleIdle
    /\ BatchIdle
    /\ ProvIdle
    /\ UnitIdle
    /\ faults \in FlagStates

\* a primitive is called on the flags as handed over or as just cleared
DvmReady == dvm_last.op \in {"none", "clear"}

DvmReturn(op, args, r) ==
    /\ dvm_last' = [op |-> op, args |-> args, ret |-> r.val, before |-> faults]
    /\ faults' = r.faults
    /\ UNCHANGED <<shufVars, merkleVars, batchVars, raised, provVars, chainVars, bij_last>>

DvmClamp == DvmReady /\ \E x \in ClampInputs :
    \E r \in {dvm_clamp32(DvmWide(x[1], x[2]), faults)} : DvmReturn("clamp", x, r)

DvmAdd == DvmReady /\ \E a \in DvmValues, b \in DvmValues :
    \E r \in {dvm_add32(a, b, faults)} : DvmReturn("add", <<a, b>>, r)

DvmSub == DvmReady /\ \E a \in DvmValues, b \in DvmValues :
    \E r \in {dvm_sub32(a, b, faults)} : DvmReturn("sub", <<a, b>>, r)

\* dvm_mul64 takes no fault flags
DvmMul64 == DvmReady /\ \E a \in DvmValues, b \in DvmValues :
    DvmReturn("mul64", <<a, b>>, [val |-> dvm_mul64(a, b), faults |-> faults])

DvmRoundShift == DvmReady /\ \E qt \in RneQuotients, fr \in RneFracs, shift \in RneShifts :
    /\ shift > 62 \/ (RneFracFits(fr, shift) /\ QBits(qt[1]) + qt[2] + shift <= 63)
    /\ \E r \in {dvm_round_shift_rne(
                     IF shift > 62 THEN DvmWide(qt[1], qt[2]) ELSE RneInput(qt, fr, shift),
                     shift, faults)} :
         DvmReturn("rne", <<qt, fr, shift>>, r)

DvmMulQ16 == DvmReady /\ \E a \in DvmValues, b \in DvmValues :
    \E r \in {dvm_mul_q16(a, b, faults)} : DvmReturn("mul_q16", <<a, b>>, r)

DvmDivQ16 == DvmReady /\ \E num \in DvmValues, denom \in DvmValues :
    \E r \in {dvm_div_q16(num, denom, faults)} : DvmReturn("div_q16", <<num, denom>>, r)

MaxElems == 3

\* the normalisation parameters of the three kinds of context, per feature
NormKinds == {"unit", "steep", "negative"}

NormCtx(kind, num_features) ==
    ct_normalize_init(
        [i \in 0 .. (num_features - 1) |-> IF kind = "steep" THEN 0 - FIXED_ONE ELSE FIXED_ONE],
        [i \in 0 .. (num_features - 1) |->
            IF kind = "unit" THEN FIXED_ONE
            ELSE IF kind = "steep" THEN 2 * FIXED_ONE ELSE 0 - (2 * FIXED_ONE)],
        num_features)

\* input buffers: every element is INT32_MAX or 3.0
NormBuffers(total_elements) ==
    [0 .. (total_elements - 1) -> {INT32_MAX, 3 * FIXED_ONE}]

\* the input sample of test_metadata_preserved, over buffer 1
NormInput(total_elements) ==
    [version |-> 42, dtype |-> 99, ndims |-> 2,
     dims |-> [i \in 0 .. (CT_MAX_DIMS - 1) |-> IF i = 0 THEN 10 ELSE IF i = 1 THEN 20 ELSE 0],
     total_elements |-> total_elements, data |-> 1]

\* ct_normalize_sample into a separate output buffer (2) or in place (1)
DvmNormalize == DvmReady /\
    \E total_elements \in 0 .. MaxElems, num_features \in 0 .. (MaxElems + 1),
       kind \in NormKinds, out_ptr \in {1, 2} :
      \E in_buf \in NormBuffers(total_elements) :
        LET ctx    == NormCtx(kind, num_features)
            input  == NormInput(total_elements)
            output == [ZeroSample EXCEPT !.data = out_ptr]
            h      == <<in_buf, [i \in 0 .. (total_elements - 1) |-> 7]>>
        IN  \E r \in {ct_normalize_sample(ctx, input, output, h, faults)} :
              DvmReturn("normalize", <<ctx, input, output, h>>,
                        [val |-> [sample |-> r.sample, heap |-> r.heap],
                         faults |-> r.faults])

\* every setting of the four flags of ct_augment_flags_t
AugFlagSets ==
    [h_flip : {0, 1}, v_flip : {0, 1}, random_crop : {0, 1}, gaussian_noise : {0, 1}]

\* <<height, width>> of the image, and of the crop (<<0, 0>>: none configured)
AugShapes == {<<2, 2>>, <<1, 3>>}

\* <<1, 3>> is wider than a 2 x 2 image
AugCrops == {<<0, 0>>, <<1, 2>>, <<1, 3>>}

\* what a read outside the buffer may yield; none happens when the crop fits
StrayValues(shape, crop) ==
    IF crop[1] <= shape[1] /\ crop[2] <= shape[2] THEN {0} ELSE {0, 9 * FIXED_ONE}

\* with seed 42 and epoch 0 the flip decision is "no" for sample 0 and "yes"
\* for sample 1
AugSampleIdx == {<<0, 0>>, <<0, 1>>}

AugEpochs == {0}

\* the context as a caller sets it up: ct_augment_init, then the crop size and
\* the noise level
AugCtx(seed, epoch, flags, crop, noise_std) ==
    LET c == ct_augment_init(seed, epoch, flags)
    IN  [seed |-> c.seed, epoch |-> c.epoch, flags |-> c.flags,
         crop_height |-> crop[1], crop_width |-> crop[2], noise_std |-> noise_std]

\* a 2-D image over buffer 1 whose elements all differ, the first at INT32_MAX
AugInput(shape) ==
    [version |-> 1, dtype |-> 0, ndims |-> 2,
     dims |-> [i \in 0 .. (CT_MAX_DIMS - 1) |->
                 IF i = 0 THEN shape[1] ELSE IF i = 1 THEN shape[2] ELSE 0],
     total_elements |-> shape[1] * shape[2], data |-> 1]

AugHeap(shape) ==
    <<[i \in 0 .. (shape[1] * shape[2] - 1) |-> IF i = 0 THEN INT32_MAX ELSE i * FIXED_ONE],
      [i \in 0 .. (shape[1] * shape[2] - 1) |-> 7]>>

DvmAugment == DvmReady /\
    \E flags \in AugFlagSets, epoch \in AugEpochs, sample_idx \in AugSampleIdx,
       shape \in AugShapes, crop \in AugCrops, noise_std \in {0, FIXED_ONE} :
        LET ctx    == AugCtx(I64(42), epoch, flags, crop, noise_std)
            input  == AugInput(shape)
            output == [ZeroSample EXCEPT !.data = 2]
            h      == AugHeap(shape)
        IN  \E stray \in StrayValues(shape, crop) :
            \E r \in {ct_augment_sample(ctx, input, output, sample_idx, h, faults, stray)} :
              DvmReturn("augment", <<ctx, input, output, sample_idx, h, stray>>,
                        [val |-> [sample |-> r.sample, heap |-> r.heap,
                                  trace |-> r.trace],
                         faults |-> r.faults])

\* the second of two calls in succession with the same context, sample_idx and
\* input sample, as in test_determinism_same_seed_same_epoch: it runs on the
\* heap that the first call left
DvmAugmentAgain ==
    /\ dvm_last.op = "augment"
    /\ \E r \in {ct_augment_sample(dvm_last.args[1], dvm_last.args[2], dvm_last.args[3],
                                    dvm_last.args[4], dvm_last.ret.heap, faults,
                                    dvm_last.args[6])} :
         DvmReturn("augment_again", dvm_last.args,
                   [val |-> [sample |-> r.sample, heap |-> r.heap, trace |-> r.trace,
                             first |-> dvm_last.ret],
                    faults |-> r.faults])

DvmFaultClear ==
    /\ ~DvmReady
    /\ faults' = ct_fault_clear
    /\ dvm_last' = [NoDvmCall EXCEPT !.op = "clear"]
    /\ UNCHANGED <<shufVars, merkleVars, batchVars, raised, provVars, chainVars, bij_last>>

NextDvm ==
    \/ DvmClamp \/ DvmAdd \/ DvmSub \/ DvmMul64 \/ DvmRoundShift \/ DvmMulQ16
    \/ DvmDivQ16 \/ DvmNormalize \/ DvmAugment \/ DvmAugmentAgain \/ DvmFaultClear

SpecDvm == InitDvm /\ [][NextDvm]_vars


\* C15: fault flags are sticky: no call of a DVM primitive, of
\* ct_normalize_sample or of ct_augment_sample clears a flag that was set
\* before the call; only ct_fault_clear resets flags.
C15_FlagsSticky ==
    [][dvm_last'.op # "clear" =>
          \A n \in DOMAIN faults : faults[n] = 1 => faults'[n] = 1]_vars

C15_Witness ==
    /\ dvm_last.op \in {"add", "sub", "clamp", "rne", "mul_q16", "div_q16",
                        "normalize", "augment"}
    /\ dvm_last.before.overflow = 1
    /\ faults.overflow = 1
    /\ \E n \in DOMAIN faults : faults[n] = 1 /\ dvm_last.before[n] = 0

\* the flags f with the named flag set as well ("none": f as it is)
WithFlag(f, name) == IF name = "none" THEN f ELSE [f EXCEPT ![name] = 1]

\* the mathematical a + b (sign = 1) or a - b (sign = -1) clamped to int32_t,
\* and the flag of the side it left the range on; b is added to the bounds so
\* that nothing is computed outside the range
ClampedSum(a, b, sign) ==
    LET above == IF sign = 1 THEN b > 0 /\ a > INT32_MAX - b
                 ELSE b < 0 /\ a > INT32_MAX + b
        below == IF sign = 1 THEN b < 0 /\ a < INT32_MIN - b
                 ELSE b > 0 /\ a < INT32_MIN + b
    IN  IF above THEN [val |-> INT32_MAX, flag |-> "overflow"]
        ELSE IF below THEN [val |-> INT32_MIN, flag |-> "underflow"]
        ELSE [val |-> IF sign = 1 THEN a + b ELSE a - b, flag |-> "none"]

\* C16: dvm_add32 and dvm_sub32 return the mathematical result clamped to
\* [INT32_MIN, INT32_MAX]; outside the range the call sets exactly one of
\* overflow (above) and underflow (below), inside it sets neither.
C16_AddSubSaturate ==
    dvm_last.op \in {"add", "sub"} =>
        LET e == ClampedSum(dvm_last.args[1], dvm_last.args[2],
                            IF dvm_last.op = "add" THEN 1 ELSE 0 - 1)
        IN  /\ dvm_last.ret = e.val
            /\ INT32_MIN <= dvm_last.ret /\ dvm_last.ret <= INT32_MAX
            /\ faults = WithFlag(dvm_last.before, e.flag)

C16_Witness ==
    /\ dvm_last.op = "sub"
    /\ dvm_last.ret = INT32_MIN
    /\ dvm_last.before.underflow = 0
    /\ faults.underflow = 1
    /\ faults.overflow = 0

\* x / 2^shift rounded to nearest, ties to even, then clamped, for
\* x = (q * 2^t) * 2^shift + a * 2^(shift-1) + d with 0 <= frac < 2^shift:
\* the quotient q * 2^t goes up by one when the fraction is above one half, or
\* is one half and the quotient is odd
RneExpected(qt, fr, shift) ==
    LET q     == qt[1]
        t     == qt[2]
        above == shift >= 2 /\ (fr = <<1, 1>> \/ fr[1] = 2)
        tie   == shift >= 1 /\ fr = <<1, 0>>
        odd   == t = 0 /\ q % 2 = 1
        up    == IF above \/ (tie /\ odd) THEN 1 ELSE 0
        \* for t = 0 the quotient is an int32_t; for t > 0 it is outside the
        \* range iff q is outside [-2^(31-t), 2^(31-t))
    IN  IF (t > 0 /\ q >= Pow2(31 - t)) \/ (t = 0 /\ q = INT32_MAX /\ up = 1)
        THEN [val |-> INT32_MAX, flag |-> "overflow"]
        ELSE IF t > 0 /\ q < 0 - Pow2(31 - t)
        THEN [val |-> INT32_MIN, flag |-> "underflow"]
        ELSE [val |-> q * Pow2(t) + up, flag |-> "none"]

\* C17: for shift in 0..62 dvm_round_shift_rne returns clamp32 of x / 2^shift
\* rounded to the nearest integer, ties to the even neighbour, for negative x
\* as well; for shift > 62 it sets the domain fault and returns 0.
C17_RoundHalfEven ==
    dvm_last.op = "rne" =>
        LET shift == dvm_last.args[3]
            e     == RneExpected(dvm_last.args[1], dvm_last.args[2], shift)
        IN  IF shift > 62
            THEN dvm_last.ret = 0 /\ faults = WithFlag(dvm_last.before, "domain")
            ELSE dvm_last.ret = e.val /\ faults = WithFlag(dvm_last.before, e.flag)

C17_Witness ==
    /\ dvm_last.op = "rne"
    /\ dvm_last.args = <<<<0 - 2, 0>>, <<1, 0>>, 62>>
    /\ dvm_last.ret = 0 - 2


\* C18: ct_normalize_sample writes out[i] = mul_q16(sub32(in[i], mean[i]),
\* inv_std[i]) for i below min(total_elements, num_features), copies in[i] for
\* the i from num_features up to total_elements, copies the metadata, and
\* writes every element even after one has saturated; in place (output buffer
\* = input buffer) the result is the same.
C18_NormalizeSample ==
    dvm_last.op = "normalize" =>
        LET ctx    == dvm_last.args[1]
            input  == dvm_last.args[2]
            output == dvm_last.args[3]
            in_buf == dvm_last.args[4][input.data]
            out    == dvm_last.ret.sample
            result == dvm_last.ret.heap[output.data]
        IN  /\ out = [input EXCEPT !.data = output.data]
            /\ \A i \in 0 .. (input.total_elements - 1) :
                  result[i] =
                    IF i < ctx.num_features
                    THEN dvm_mul_q16(dvm_sub32(in_buf[i], ctx.means[i], ct_fault_clear).val,
                                     ctx.inv_stds[i], ct_fault_clear).val
                    ELSE in_buf[i]

C18_Witness ==
    /\ dvm_last.op = "normalize"
    /\ dvm_last.args[3].data = dvm_last.args[2].data
    /\ dvm_last.args[2].total_elements = 3
    /\ dvm_last.args[1].num_features = 2
    /\ dvm_last.before.overflow = 0 /\ faults.overflow = 1
    /\ dvm_last.ret.heap[1][0] = INT32_MAX
    /\ dvm_last.ret.heap[1][1] = 8 * FIXED_ONE
    /\ dvm_last.ret.heap[1][2] = 3 * FIXED_ONE

\* the rank of a step in the documented pipeline order
StepRank(name) ==
    CASE name = "random_crop"     -> 1
      [] name = "horizontal_flip" -> 2
      [] name = "vertical_flip"   -> 3
      [] name = "brightness"      -> 4
      [] name = "additive_noise"  -> 5

StepsOf(trace) == SelectSeq(trace, LAMBDA ev : ev[1] = "step")

PrfCallsOf(trace) == SelectSeq(trace, LAMBDA ev : ev[1] = "prf")

\* C19: the steps of one ct_augment_sample run in the order random_crop,
\* horizontal_flip, vertical_flip, brightness, additive_noise: no step runs
\* before one that precedes it in this order.
C19_FixedPipelineOrder ==
    dvm_last.op = "augment" =>
        LET steps == StepsOf(dvm_last.ret.trace)
        IN  \A i \in DOMAIN steps : \A j \in DOMAIN steps :
              i < j => StepRank(steps[i][2]) <= StepRank(steps[j][2])

\* C20: two runs of ct_augment_sample on the same seed, epoch, sample_idx and
\* sample that differ only in the enabled flags issue the same sequence of
\* PRF calls.
C20_PrfIndependentOfFlags ==
    dvm_last.op = "augment" =>
        \A flags \in AugFlagSets :
            PrfCallsOf(ct_augment_sample([dvm_last.args[1] EXCEPT !.flags = flags],
                                         dvm_last.args[2], dvm_last.args[3],
                                         dvm_last.args[4], dvm_last.args[5],
                                         dvm_last.before, dvm_last.args[6]).trace)
              = PrfCallsOf(dvm_last.ret.trace)

\* C21: no operation changes the data of its input sample: after
\* ct_augment_sample, and after ct_normalize_sample into a distinct output
\* buffer, every element of the input's buffer has the value it had before
\* the call.
C21_InputDataUnchanged ==
    /\ dvm_last.op = "augment" =>
          dvm_last.ret.heap[dvm_last.args[2].data]
            = dvm_last.args[5][dvm_last.args[2].data]
    /\ (dvm_last.op = "normalize" /\ dvm_last.args[3].data # dvm_last.args[2].data) =>
          dvm_last.ret.heap[dvm_last.args[2].data]
            = dvm_last.args[4][dvm_last.args[2].data]

\* the elements 0 .. total_elements - 1 of the buffer of a sample
DataOf(sample, h) == [i \in 0 .. (sample.total_elements - 1) |-> h[sample.data][i]]

\* C22: of two calls of ct_augment_sample in succession with the same context,
\* sample_idx and input sample, the second yields the output (metadata and
\* data) that the first yielded.
C22_RepeatedCallSameOutput ==
    dvm_last.op = "augment_again" =>
        /\ dvm_last.ret.sample = dvm_last.ret.first.sample
        /\ DataOf(dvm_last.ret.sample, dvm_last.ret.heap)
             = DataOf(dvm_last.ret.first.sample, dvm_last.ret.first.heap)

\* C23: random_crop validates its sizes: a crop higher or wider than the
\* input is refused (nothing is read, a fault is set); every read of the crop
\* is at an index below the input's total_elements, and the offsets satisfy
\* offset_y <= H - crop_h and offset_x <= W - crop_w.
C23_CropValidatesSizes ==
    dvm_last.op = "augment" =>
        LET ctx    == dvm_last.args[1]
            input  == dvm_last.args[2]
            H      == input.dims[0]
            W      == IF input.ndims > 1 THEN input.dims[1] ELSE 1
            crops  == SelectSeq(dvm_last.ret.trace, LAMBDA ev : ev[1] = "crop")
            reads  == SelectSeq(dvm_last.ret.trace, LAMBDA ev : ev[1] = "read")
        IN  /\ (ctx.flags.random_crop = 1 /\ (ctx.crop_height > H \/ ctx.crop_width > W)) =>
                  /\ crops = <<>> /\ reads = <<>>
                  /\ \E n \in DOMAIN faults : faults[n] = 1
            /\ \A k \in DOMAIN reads :
                  U32IsSmall(reads[k][2]) /\ U32Val(reads[k][2]) < input.total_elements
            /\ \A k \in DOMAIN crops :
                  /\ U32IsSmall(crops[k][2]) /\ U32Val(crops[k][2]) + ctx.crop_height <= H
                  /\ U32IsSmall(crops[k][3]) /\ U32Val(crops[k][3]) + ctx.crop_width <= W

DistinctInRange(seed, epoch, N, num_samples) ==
    LET out(i) == ct_permute_index(i, N, seed, epoch).ret
    IN  \A i \in 0 .. (num_samples - 1) :
          /\ 0 <= out(i) /\ out(i) < N
          /\ \A j \in 0 .. (num_samples - 1) : i # j => out(i) # out(j)

\* C25: ct_shuffle_verify_bijection returns 1 only when ct_permute_index maps
\* 0 .. num_samples - 1 to pairwise distinct outputs in [0, N), and 0 when two
\* of these indices share an output or an output is out of range.
C25_VerifyDetectsCollision ==
    bij_last.op = "verify" =>
        /\ bij_last.ret \in {0, 1}
        /\ bij_last.ret = 1 =>
              DistinctInRange(shuf_ctx.seed, shuf_ctx.epoch, shuf_N, bij_last.num_samples)
        /\ ~DistinctInRange(shuf_ctx.seed, shuf_ctx.epoch, shuf_N, bij_last.num_samples) =>
              bij_last.ret = 0

\* C26: a call of ct_permute_index applies the Feistel network at most
\* range = 2^k times; when the walk ends without a value below N the call sets
\* the domain fault and returns index mod N.
C26_ExhaustionSetsDomain ==
    /\ (call # NoCall /\ shuf_N >= 2) => call.iterations <= Pow2(ceil_log2(shuf_N))
    /\ call.path = "fallback" =>
          /\ call.ret = call.index % shuf_N
          /\ faults.domain = 1

(***************************************************************************)
(* The PRF and its inputs: the op_id of one draw of the augmentation, and  *)
(* ct_prng on two triples (seed, epoch, op_id)                             *)
(***************************************************************************)
\* the op_id of a draw [sample_idx, kind, elem]: the crop offsets and the flip
\* decision of a sample, and the noise draw of element elem
DrawOpId(d) ==
    CASE d.kind = "crop_x" -> AugOpId(d.sample_idx, 1)
      [] d.kind = "crop_y" -> AugOpId(d.sample_idx, 2)
      [] d.kind = "flip"   -> AugOpId(d.sample_idx, 256)
      [] d.kind = "noise"  -> AugOpId(d.sample_idx, 4096 + d.elem)

\* sample indices below and above 2^16; element indices 0, 1, 0xF100, 0xF001
DrawSamples == {<<0, 0>>, <<0, 1>>, <<0, 2>>, <<1, 0>>, <<1, 1>>}

DrawElems == {0, 1, 61696, 61441}

Draws ==
    [sample_idx : DrawSamples, kind : {"crop_x", "crop_y", "flip"}, elem : {0}]
      \cup [sample_idx : DrawSamples, kind : {"noise"}, elem : DrawElems]

\* seeds that differ in bit 32 and in bit 0
PrngSeeds == {<<42, 0, 0, 0, 0, 0, 0, 0>>, <<42, 0, 0, 0, 1, 0, 0, 0>>,
              <<43, 0, 0, 0, 0, 0, 0, 0>>}

PrngTriples == [seed : PrngSeeds, epoch : 0 .. 2, op_id : {<<0, 0>>, <<0, 1>>, <<1, 0>>}]

InitPrng ==
    /\ ShuffleIdle
    /\ MerkleIdle
    /\ BatchIdle
    /\ ProvIdle
    /\ UnitIdle
    /\ faults = ct_fault_clear

\* the op_ids of two draws of one epoch
PrngOpIds == DvmReady /\
    \E a \in Draws, b \in Draws :
        DvmReturn("op_id", <<a, b>>,
                  [val |-> <<DrawOpId(a), DrawOpId(b)>>, faults |-> faults])

\* ct_prng on two triples
PrngCalls == DvmReady /\
    \E a \in PrngTriples, b \in PrngTriples :
        \E ra \in {ct_prng(a.seed, a.epoch, a.op_id)}, rb \in {ct_prng(b.seed, b.epoch, b.op_id)} :
            DvmReturn("prng", <<a, b>>, [val |-> <<ra, rb>>, faults |-> faults])

NextPrng == PrngOpIds \/ PrngCalls

SpecPrng == InitPrng /\ [][NextPrng]_vars

\* C28: the op_id packing is injective: distinct draws (sample_idx, kind,
\* element index) of an epoch have distinct op_id values.
C28_OpIdInjective ==
    dvm_last.op = "op_id" =>
        (dvm_last.args[1] # dvm_last.args[2] => dvm_last.ret[1] # dvm_last.ret[2])

\* seed XOR (epoch << 32) XOR op_id, byte by byte: epoch meets bytes 5..8 of
\* the seed and op_id bytes 1..4
WordOf(t) ==
    [k \in 1 .. 8 |->
        IF k <= 4 THEN BitXor(t.seed[k], LE4(U32Val(t.op_id))[k])
        ELSE BitXor(t.seed[k], LE4(t.epoch)[k - 4])]

\* C30: ct_prng depends on (seed, epoch, op_id) only through the word
\* seed XOR (epoch << 32) XOR op_id: equal words give equal outputs,
\* ct_prng(seed, epoch, op_id) = ct_prng(seed XOR (epoch << 32), 0, op_id),
\* and for one seed distinct (epoch, op_id) give distinct words.
C30_PrngWordOnly ==
    dvm_last.op = "prng" =>
        LET a == dvm_last.args[1]
            b == dvm_last.args[2]
        IN  /\ WordOf(a) = WordOf(b) => dvm_last.ret[1] = dvm_last.ret[2]
            /\ dvm_last.ret[1]
                 = ct_prng(Bytes8([k \in 1 .. 8 |->
                                     IF k <= 4 THEN a.seed[k]
                                     ELSE BitXor(a.seed[k], LE4(a.epoch)[k - 4])]),
                           0, a.op_id)
            /\ (a.seed = b.seed /\ <<a.epoch, a.op_id>> # <<b.epoch, b.op_id>>) =>
                  PrngWord(a.seed, a.epoch, a.op_id) # PrngWord(b.seed, b.epoch, b.op_id)

\* two triples with different seeds and epochs and the same word
C30_Witness ==
    /\ dvm_last.op = "prng"
    /\ dvm_last.args[1].seed # dvm_last.args[2].seed
    /\ dvm_last.args[1].epoch = 1 /\ dvm_last.args[2].epoch = 0
    /\ WordOf(dvm_last.args[1]) = WordOf(dvm_last.args[2])
    /\ dvm_last.ret[1] = dvm_last.ret[2]

\* C29: the result of ct_batch_verify depends only on batch_size,
\* sample_hashes and batch_hash: a verification made after the data or the
\* metadata of a sample of the batch was changed returns what the
\* verification before the change returned.
C29_VerifyIgnoresSamples ==
    [][(last_op = "tamper_sample" /\ last_op' = "verify") => verify_ret' = verify_ret]_vars

\* a batch is accepted although a sample no longer has the hash stored for it
C29_Witness ==
    /\ last_op = "verify"
    /\ verify_ret = 1
    /\ \E i \in 0 .. (batch.batch_size - 1) :
          /\ batch.samples[i].version = TamperedValue
          /\ batch.sample_hashes[i] # ct_hash_sample(batch.samples[i], heap)

====
